---- MODULE Spec2Model ----
(***************************************************************************)
(* Problems-Pipe: the diagnostic store (primary map, severity and source   *)
(* membership sets, summary cache), the debounced DiagnosticCollector in   *)
(* front of it, the debounce utility and the LRU cache of file lines.      *)
(*                                                                         *)
(* JavaScript values are modelled as follows.  `undefined` and `null` are  *)
(* the strings Undefined and Null.  A Map that the code iterates is a      *)
(* sequence of [key, val] records in insertion order; a Set that the code  *)
(* iterates is a sequence without duplicates in insertion order; a Map     *)
(* that is only indexed is a function whose DOMAIN is its key set.         *)
(***************************************************************************)
EXTENDS Integers, Sequences, FiniteSets, TLC

VARIABLES
    \* ---- LRUCache under test (utils/cache) ----
    lru,          \* the cache object: [maxSize, map, head, tail]
    lruOp,        \* the last call made on it and what it returned
    recency,      \* history: present keys, most recently used first
    \* ---- debounce(fn, delayMs) closure and the timer table ----
    timer,        \* the closure variable `timer`: a handle or Undefined
    timeouts,     \* the runtime's pending setTimeout callbacks: handle -> [left, args]
    fnCalls,      \* arguments of every invocation of fn so far
    lastCall,     \* history: the most recent debounced(...) call, its age and fate
    callsMade,    \* number of debounced(...) calls made so far
    \* ---- vscode.languages: the raw diagnostics of the workspace ----
    diagnostics,  \* uri -> raw diagnostic list, for the uris that have an entry
    \* ---- DiagnosticStore ----
    config,           \* this.config
    byUri,            \* Map uri -> EnrichedDiagnostic[], in insertion order
    bySeverity,       \* Map severity -> Set of uris
    bySource,         \* Map source -> Set of uris
    cachedSummaries,  \* Map groupBy -> DiagnosticSummary
    fileCache,        \* enricher.fileCache: LRUCache of file lines
    idCounter,        \* the module's idCounter
    emitterDisposed,  \* changeEmitter.dispose() was called
    summaryCounter,   \* number of DiagnosticSummary objects built so far
    fired,            \* the change events the last store call delivered
    seen,             \* the index as a subscriber reads it inside the callback
                      \* of each of these events
    lastOp,           \* the last store call and its arguments
    summaryLog,       \* history: groupBy -> the summary last returned, and
                      \* whether the index was mutated since
    \* ---- DiagnosticCollector ----
    pendingUris,        \* Map uri string -> uri, in insertion order (its keys)
    collectorDisposed,  \* dispose() was called
    notified,           \* history: uris notified since the last flush
    lastFlush,          \* history: the batches the last flush passed to the store
    notifications,      \* number of change notifications delivered so far
    \* ---- the host: clock, workspace folders, documents ----
    now,               \* Date.now(), in ticks
    workspaceFolders,  \* vscode.workspace.workspaceFolders
    fileContents,      \* uri -> the lines of the document, or Unreadable
    \* ---- a query or getForFile call awaiting its file reads ----
    inFlight,          \* the records it selected and one slot per record
    returned,          \* what the last completed call returned
    \* ---- ProblemsMcpServer ----
    server             \* its fields, the HttpTransports created so far and
                       \* the start / stop / restart calls that await

lruVars == <<lru, lruOp, recency>>
debVars == <<timer, timeouts, fnCalls, lastCall, callsMade>>
storeVars == <<config, byUri, bySeverity, bySource, cachedSummaries, fileCache,
               idCounter, summaryCounter, emitterDisposed, fired, seen, lastOp,
               summaryLog>>
collVars == <<pendingUris, collectorDisposed, notified, lastFlush, notifications>>
qryVars == <<now, workspaceFolders, fileContents, inFlight, returned>>
vars == <<lru, lruOp, recency, timer, timeouts, fnCalls, lastCall, callsMade,
          diagnostics, config, byUri, bySeverity, bySource, cachedSummaries,
          fileCache, idCounter, summaryCounter, emitterDisposed, fired, seen, lastOp,
          summaryLog, pendingUris, collectorDisposed, notified, lastFlush,
          notifications, now, workspaceFolders, fileContents, inFlight, returned,
          server>>

Undefined == "undefined"
Null == "null"

\* ---------------------------------------------------------------------
\* Bounds of the model
\* ---------------------------------------------------------------------
MaxCapacity == 3      \* largest maxSize an LRUCache under test is built with
Delay == 2            \* delayMs, in clock ticks
MaxCalls == 3         \* debounced(...) calls per behaviour
MaxIds == 6           \* ids nextId() hands out per behaviour
MaxSummaries == 2     \* summary objects getSummary() builds per behaviour
MaxNotifications == 3 \* change notifications the collector receives per behaviour

LRUKeys == {"a", "b", "c", "d"}
LRUValues == {"v1", "v2"}
CallArgs == {"first", "second"}

\* ---------------------------------------------------------------------
\* Sequences
\* ---------------------------------------------------------------------
Range(s) == {s[i] : i \in DOMAIN s}

RECURSIVE SeqFilterOut(_, _)
SeqFilterOut(s, x) ==
    IF s = <<>> THEN <<>>
    ELSE IF Head(s) = x THEN SeqFilterOut(Tail(s), x)
         ELSE <<Head(s)>> \o SeqFilterOut(Tail(s), x)

Restrict(f, S) == [x \in S |-> f[x]]

\* ---------------------------------------------------------------------
\* LRUCache<V>: src/src/utils/navigatorShim.ts 37-130
\* An entry object is identified by its key: set() creates an entry only
\* for a key the map does not hold, and an entry that left the map is
\* referenced by nothing.
\* ---------------------------------------------------------------------
NewLRUCache(maxSize) ==
    [maxSize |-> maxSize, map |-> <<>>, head |-> Null, tail |-> Null]

LRUHas(c, key) == key \in DOMAIN c.map

LRUSize(c) == Cardinality(DOMAIN c.map)

\* removeEntry that leaves the prev of the successor as it was
removeEntry_KeepsBackLink(c, key) ==
    LET e  == c.map[key]
        m1 == IF e.prev # Null THEN [c.map EXCEPT ![e.prev].next = e.next] ELSE c.map
        h1 == IF e.prev # Null THEN c.head ELSE e.next
        t1 == IF e.next # Null THEN c.tail ELSE e.prev
    IN  [c EXCEPT !.map = [m1 EXCEPT ![key].prev = Null, ![key].next = Null],
                  !.head = h1, !.tail = t1]

\* removeEntry(entry): unlink from the list, the map is left alone
removeEntry(c, key) ==
    LET e  == c.map[key]
        m1 == IF e.prev # Null THEN [c.map EXCEPT ![e.prev].next = e.next] ELSE c.map
        h1 == IF e.prev # Null THEN c.head ELSE e.next
        m2 == IF e.next # Null THEN [m1 EXCEPT ![e.next].prev = e.prev] ELSE m1
        t1 == IF e.next # Null THEN c.tail ELSE e.prev
    IN  [c EXCEPT !.map = [m2 EXCEPT ![key].prev = Null, ![key].next = Null],
                  !.head = h1, !.tail = t1]

\* addToHead(entry)
addToHead(c, key) ==
    LET m1 == [c.map EXCEPT ![key].prev = Null, ![key].next = c.head]
        m2 == IF c.head # Null THEN [m1 EXCEPT ![c.head].prev = key] ELSE m1
    IN  [c EXCEPT !.map = m2, !.head = key,
                  !.tail = IF c.tail = Null THEN key ELSE c.tail]

\* moveToHead(entry)
moveToHead(c, key) ==
    IF key = c.head THEN c ELSE addToHead(removeEntry(c, key), key)

mapDelete(c, key) == [c EXCEPT !.map = Restrict(c.map, DOMAIN c.map \ {key})]

\* evict(): drop the tail entry
evict(c) ==
    IF c.tail = Null THEN c
    ELSE mapDelete(removeEntry(c, c.tail), c.tail)

\* get that returns the value without promoting the entry
LRUGet_NoPromote(c, key) == c

\* get that takes the entry out of the cache
LRUGet_DropsEntry(c, key) ==
    IF ~LRUHas(c, key) THEN c ELSE mapDelete(removeEntry(c, key), key)

\* get(key): the cache after the call, and the value returned
LRUGet(c, key) == IF ~LRUHas(c, key) THEN c ELSE moveToHead(c, key)
LRUGetResult(c, key) == IF ~LRUHas(c, key) THEN Undefined ELSE c.map[key].value

\* set that never evicts
LRUSet_NoEvict(c, key, value) ==
    IF LRUHas(c, key)
    THEN moveToHead([c EXCEPT !.map[key].value = value], key)
    ELSE LET entry == [value |-> value, key |-> key, prev |-> Null, next |-> Null]
             c1 == [c EXCEPT !.map = [k \in DOMAIN c.map \cup {key} |->
                                        IF k = key THEN entry ELSE c.map[k]]]
         IN  addToHead(c1, key)

\* set(key, value)
LRUSet(c, key, value) ==
    IF LRUHas(c, key)
    THEN moveToHead([c EXCEPT !.map[key].value = value], key)
    ELSE LET entry == [value |-> value, key |-> key, prev |-> Null, next |-> Null]
             c1 == [c EXCEPT !.map = [k \in DOMAIN c.map \cup {key} |->
                                        IF k = key THEN entry ELSE c.map[k]]]
             c2 == addToHead(c1, key)
         IN  IF LRUSize(c2) > c2.maxSize THEN evict(c2) ELSE c2

\* delete(key): the cache after the call, and the boolean returned
LRUDelete(c, key) ==
    IF ~LRUHas(c, key) THEN c ELSE mapDelete(removeEntry(c, key), key)
LRUDeleteResult(c, key) == LRUHas(c, key)

\* clear()
LRUClear(c) == [c EXCEPT !.map = <<>>, !.head = Null, !.tail = Null]

\* The keys of the linked list from head to tail (at most n steps).
RECURSIVE ListFrom(_, _, _)
ListFrom(c, key, n) ==
    IF key = Null \/ n = 0 \/ key \notin DOMAIN c.map THEN <<>>
    ELSE <<key>> \o ListFrom(c, c.map[key].next, n - 1)

LRUOrder(c) == ListFrom(c, c.head, LRUSize(c) + 1)

\* ---------------------------------------------------------------------
\* ProblemsMcpServer: src/src/mcp/server.ts 63-116, over HttpTransport
\* (src/src/mcp/transport/http.ts 225-327).  A transport is
\* [port, state]: "starting" while listen() is pending, then "listening" or
\* "failed" (the port is taken), and "closed" once its server was closed.
\* this.transport is <<>> when undefined and <<t>> for the t-th transport.
\* A call that awaits is [op, pc, t]: pc "listen" inside start() awaiting
\* transport.start(), pc "close" inside stop() awaiting transport.stop().
\* ---------------------------------------------------------------------
Ports == {3030, 3031}

NoneDone == [op |-> "none", result |-> "none"]

ServerIdle ==
    [running |-> FALSE, transport |-> <<>>, changeListener |-> FALSE,
     httpPort |-> 3030, transports |-> <<>>, calls |-> <<>>, done |-> NoneDone]

\* the transports whose HTTP server accepts connections
Listening(s) == {t \in DOMAIN s.transports : s.transports[t].state = "listening"}

\* start() up to its await: new HttpTransport(...), transport.start()
startServer(s, op) ==
    LET t == Len(s.transports) + 1 IN
    [s EXCEPT !.transport = <<t>>,
              !.transports = Append(@, [port |-> s.httpPort, state |-> "starting"]),
              !.calls = Append(@, [op |-> op, pc |-> "listen", t |-> t])]

\* httpServer.listen() settles: the port is bound unless a listening
\* server holds it (EADDRINUSE)
listen(s, t) ==
    IF \E u \in Listening(s) : s.transports[u].port = s.transports[t].port
    THEN [s EXCEPT !.transports[t].state = "failed"]
    ELSE [s EXCEPT !.transports[t].state = "listening"]

\* start() after its await: running = true and the change listener, or the
\* catch block
started(s, op, t) ==
    IF s.transports[t].state = "listening"
    THEN [s EXCEPT !.running = TRUE, !.changeListener = TRUE,
                   !.done = [op |-> op, result |-> "returned"]]
    ELSE [s EXCEPT !.running = FALSE, !.done = [op |-> op, result |-> "threw"]]

\* httpServer.close(): a listening server stops accepting connections at
\* once; a server that is not listening (its listen() pending, failed or
\* closed already) has no handle to close and is left as it is
close(s, t) ==
    IF s.transports[t].state = "listening"
    THEN [s EXCEPT !.transports[t].state = "closed"]
    ELSE s

\* stop() up to its await, for a server that is running and has a transport
stopServer(s, op) ==
    LET t == s.transport[1]
        s1 == close([s EXCEPT !.changeListener = FALSE], t)
    IN  [s1 EXCEPT !.calls = Append(@, [op |-> op, pc |-> "close", t |-> t])]

\* stop() after its await: this.transport = undefined, this.running = false
stopped(s) == [s EXCEPT !.transport = <<>>, !.running = FALSE]

Settled(s) == [s EXCEPT !.done = NoneDone]

WithoutCall(s, i) ==
    [s EXCEPT !.calls = SubSeq(@, 1, i - 1) \o SubSeq(@, i + 1, Len(@))]

\* ---------------------------------------------------------------------
\* The LRUCache under test: one action per public method
\* (src/tests/utils/cache.test.ts builds caches of maxSize 1..3)
\* ---------------------------------------------------------------------
NoLRUOp == [op |-> "none", key |-> Null, value |-> Null, ret |-> Null, evicted |-> Null]

\* history: the use order of the present keys after a use of `key`
Touch(order, key, present) ==
    LET rest == SeqFilterOut(order, key)
        kept == SelectSeq(rest, LAMBDA k : k \in present)
    IN  IF key \in present THEN <<key>> \o kept ELSE kept

LRUInit ==
    /\ lru \in {NewLRUCache(n) : n \in 1..MaxCapacity}
    /\ server = ServerIdle
    /\ lruOp = NoLRUOp
    /\ recency = <<>>

CacheGet(key) ==
    /\ lru' = LRUGet(lru, key)
    /\ lruOp' = [NoLRUOp EXCEPT !.op = "get", !.key = key,
                                !.ret = LRUGetResult(lru, key)]
    /\ recency' = IF LRUHas(lru, key) THEN Touch(recency, key, DOMAIN lru'.map)
                  ELSE recency
    /\ UNCHANGED <<debVars, qryVars, storeVars, collVars, diagnostics, server>>

CacheSet(key, value) ==
    LET gone == (DOMAIN lru.map \cup {key}) \ DOMAIN LRUSet(lru, key, value).map IN
    /\ lru' = LRUSet(lru, key, value)
    /\ lruOp' = [NoLRUOp EXCEPT !.op = "set", !.key = key, !.value = value,
                                !.evicted = IF gone = {} THEN Null
                                            ELSE CHOOSE k \in gone : TRUE]
    /\ recency' = Touch(recency, key, DOMAIN lru'.map)
    /\ UNCHANGED <<debVars, qryVars, storeVars, collVars, diagnostics, server>>

CacheDelete(key) ==
    /\ lru' = LRUDelete(lru, key)
    /\ lruOp' = [NoLRUOp EXCEPT !.op = "delete", !.key = key,
                                !.ret = IF LRUDeleteResult(lru, key) THEN "true" ELSE "false"]
    /\ recency' = SeqFilterOut(recency, key)
    /\ UNCHANGED <<debVars, qryVars, storeVars, collVars, diagnostics, server>>

CacheClear ==
    /\ lru' = LRUClear(lru)
    /\ lruOp' = [NoLRUOp EXCEPT !.op = "clear"]
    /\ recency' = <<>>
    /\ UNCHANGED <<debVars, qryVars, storeVars, collVars, diagnostics, server>>

\* ---------------------------------------------------------------------
\* The runtime's timers.  setTimeout(cb, delayMs) registers a callback that
\* runs once delayMs have elapsed; time is counted in ticks and does not
\* advance past a due callback (the timers of the tests, vi.useFakeTimers).
\* A callback is [left |-> ticks to go, args |-> what its closure captured].
\* ---------------------------------------------------------------------
Handles == <<"t1", "t2", "t3", "t4", "t5">>

\* the handle setTimeout returns: the first one not pending
FreshHandle(tos) ==
    Handles[CHOOSE i \in DOMAIN Handles :
              /\ Handles[i] \notin DOMAIN tos
              /\ \A j \in 1..(i - 1) : Handles[j] \in DOMAIN tos]

setTimeout(tos, args, delayMs) ==
    [h \in DOMAIN tos \cup {FreshHandle(tos)} |->
        IF h \in DOMAIN tos THEN tos[h] ELSE [left |-> delayMs, args |-> args]]

clearTimeout(tos, h) == Restrict(tos, DOMAIN tos \ {h})

TimePasses(tos) == [h \in DOMAIN tos |-> [tos[h] EXCEPT !.left = @ - 1]]

Due(tos) == {h \in DOMAIN tos : tos[h].left = 0}

\* ---------------------------------------------------------------------
\* debounce(fn, delayMs): src/src/utils/debounce.ts 1-25
\* The closure state is d = [timer, timeouts]; timeouts is the runtime's.
\* ---------------------------------------------------------------------
\* debounced that arms a timer without clearing the pending one
debounced_NoClear(d, args, delayMs) ==
    [timer |-> FreshHandle(d.timeouts), timeouts |-> setTimeout(d.timeouts, args, delayMs)]

\* debounced that clears the pending timer and arms none in its place
debounced_ClearOnly(d, args, delayMs) ==
    IF d.timer # Undefined
    THEN [timer |-> d.timer, timeouts |-> clearTimeout(d.timeouts, d.timer)]
    ELSE [timer |-> FreshHandle(d.timeouts), timeouts |-> setTimeout(d.timeouts, args, delayMs)]

\* debounced(...args)
debounced(d, args, delayMs) ==
    LET cleared == IF d.timer # Undefined THEN clearTimeout(d.timeouts, d.timer)
                   ELSE d.timeouts
    IN  [timer |-> FreshHandle(cleared), timeouts |-> setTimeout(cleared, args, delayMs)]

\* the setTimeout callback, up to its call of fn: timer = undefined
timerCallback(d, h) ==
    [timer |-> Undefined, timeouts |-> clearTimeout(d.timeouts, h)]

\* cancel that forgets the handle without clearing the timeout
cancel_KeepsTimeout(d) ==
    [timer |-> Undefined, timeouts |-> d.timeouts]

\* debounced.cancel()
cancel(d) ==
    IF d.timer # Undefined
    THEN [timer |-> Undefined, timeouts |-> clearTimeout(d.timeouts, d.timer)]
    ELSE d

Deb == [timer |-> timer, timeouts |-> timeouts]

\* ---------------------------------------------------------------------
\* debounce under test (the debounce tests of the repository): fn records
\* the arguments it is invoked with.
\* ---------------------------------------------------------------------
\* state: "pending", "fired", "cancelled"; prev: the state the call before
\* it was in when this one was made
NoCall == [args |-> Null, age |-> 0, state |-> "none", prev |-> "none"]

DebounceInit ==
    /\ timer = Undefined
    /\ timeouts = <<>>
    /\ fnCalls = <<>>
    /\ lastCall = NoCall
    /\ callsMade = 0

\* debounced(args) is called
DebouncedCall(args) ==
    /\ callsMade < MaxCalls
    /\ timer' = debounced(Deb, args, Delay).timer
    /\ timeouts' = debounced(Deb, args, Delay).timeouts
    /\ lastCall' = [args |-> args, age |-> 0, state |-> "pending",
                    prev |-> lastCall.state]
    /\ callsMade' = callsMade + 1
    /\ UNCHANGED <<fnCalls, lruVars, server, qryVars, storeVars, collVars, diagnostics>>

\* one tick of time passes while a callback is pending
Tick ==
    /\ timeouts # <<>>
    /\ Due(timeouts) = {}
    /\ timeouts' = TimePasses(timeouts)
    /\ lastCall' = [lastCall EXCEPT !.age = IF @ < Delay THEN @ + 1 ELSE @]
    /\ UNCHANGED <<timer, fnCalls, callsMade, lruVars, server, qryVars, storeVars, collVars, diagnostics>>

\* a due callback runs: timer = undefined; fn(...args)
TimerFires ==
    \E h \in Due(timeouts) :
        /\ timer' = timerCallback(Deb, h).timer
        /\ timeouts' = timerCallback(Deb, h).timeouts
        /\ fnCalls' = Append(fnCalls, timeouts[h].args)
        /\ lastCall' = [lastCall EXCEPT !.state = "fired"]
        /\ UNCHANGED <<callsMade, lruVars, server, qryVars, storeVars, collVars, diagnostics>>

\* debounced.cancel() is called
CancelCall ==
    /\ timer' = cancel(Deb).timer
    /\ timeouts' = cancel(Deb).timeouts
    /\ lastCall' = IF lastCall.state = "pending"
                   THEN [lastCall EXCEPT !.state = "cancelled"] ELSE lastCall
    /\ UNCHANGED <<fnCalls, callsMade, lruVars, server, qryVars, storeVars, collVars, diagnostics>>

\* ---------------------------------------------------------------------
\* JavaScript Map and Set in insertion order
\* ---------------------------------------------------------------------
MapKeys(m) == [i \in DOMAIN m |-> m[i].key]
MapHas(m, k) == \E i \in DOMAIN m : m[i].key = k
MapGet(m, k) == m[CHOOSE i \in DOMAIN m : m[i].key = k].val
MapSet(m, k, v) ==
    IF MapHas(m, k)
    THEN [i \in DOMAIN m |-> IF m[i].key = k THEN [key |-> k, val |-> v] ELSE m[i]]
    ELSE Append(m, [key |-> k, val |-> v])
MapDelete(m, k) == SelectSeq(m, LAMBDA e : e.key # k)

SetHas(s, x) == x \in Range(s)
SetAdd(s, x) == IF SetHas(s, x) THEN s ELSE Append(s, x)
SetDelete(s, x) == SeqFilterOut(s, x)

\* Array.prototype.slice(0, end)
SliceTo(s, end) ==
    LET e == IF end < 0 THEN (IF Len(s) + end < 0 THEN 0 ELSE Len(s) + end)
             ELSE IF end > Len(s) THEN Len(s) ELSE end
    IN  SubSeq(s, 1, e)

\* a string in a condition: undefined and "" are falsy
Truthy(str) == str # Undefined /\ str # ""

\* ---------------------------------------------------------------------
\* The workspace: files, their raw diagnostics, configurations
\* ---------------------------------------------------------------------
FILE_A == "file:///workspace/src/a.ts"
FILE_B == "file:///workspace/src/b.ts"
Uris == {FILE_A, FILE_B}

\* vscode.DiagnosticSeverity
SevError == 0
SevWarning == 1
SevInformation == 2
SevHint == 3

Severities == {"error", "warning", "information", "hint"}

\* line is range.start.line
TypeError == [severity |-> SevError, source |-> "typescript", message |-> "Type error",
              code |-> "TS2322", line |-> 0]
Unused == [severity |-> SevWarning, source |-> "eslint", message |-> "Unused variable",
           code |-> "TS6133", line |-> 1]
Deprecated == [severity |-> SevHint, source |-> Undefined, message |-> "Deprecated API",
               code |-> Undefined, line |-> 2]
Anonymous == [severity |-> SevInformation, source |-> "", message |-> "Prefer const",
              code |-> "prefer-const", line |-> 5]

\* the raw lists a file's diagnostics are drawn from
RawLists == {<<>>, <<Unused, TypeError>>, <<Deprecated, Anonymous>>}

Sources == {"typescript", "eslint", ""}

DefaultMaxDiagnosticsPerFile == 100
DefaultContextLines == 3
FileCacheMaxSize == 100

DefaultConfig ==
    [includeSources |-> <<>>, excludeSources |-> <<>>,
     maxDiagnosticsPerFile |-> DefaultMaxDiagnosticsPerFile,
     contextLines |-> DefaultContextLines]

Configs ==
    { DefaultConfig,
      [includeSources |-> <<"typescript">>, excludeSources |-> <<>>,
       maxDiagnosticsPerFile |-> DefaultMaxDiagnosticsPerFile,
     contextLines |-> DefaultContextLines],
      [includeSources |-> <<>>, excludeSources |-> <<"eslint">>,
       maxDiagnosticsPerFile |-> 1,
     contextLines |-> DefaultContextLines] }

\* vscode.languages.getDiagnostics(uri)
getDiagnosticsOf(diags, uri) == IF uri \in DOMAIN diags THEN diags[uri] ELSE <<>>

\* vscode.languages.getDiagnostics(): the [uri, diagnostics] tuples of every
\* entry, in an order the host chooses
RECURSIVE Orders(_)
Orders(S) ==
    IF S = {} THEN {<<>>}
    ELSE UNION {{<<x>> \o rest : rest \in Orders(S \ {x})} : x \in S}

AllDiagnostics(diags) ==
    {[i \in DOMAIN order |-> [key |-> order[i], val |-> diags[order[i]]]] :
        order \in Orders(DOMAIN diags)}

\* ---------------------------------------------------------------------
\* DiagnosticStore: src/unnamed/part_008 146-701
\* A store is the record st of the object's fields (and the module's
\* idCounter); st.fired collects the payloads changeEmitter.fire delivers.
\* ---------------------------------------------------------------------
SEVERITY_MAP == <<"error", "warning", "information", "hint">>

\* String.prototype.startsWith / endsWith
StartsWith(str, prefix) ==
    Len(prefix) <= Len(str) /\ SubSeq(str, 1, Len(prefix)) = prefix
EndsWith(str, suffix) ==
    Len(suffix) <= Len(str) /\ SubSeq(str, Len(str) - Len(suffix) + 1, Len(str)) = suffix

\* the workspace the tests run in, and one of three roots, two of them
\* folders of the same name
SingleRoot == <<[name |-> "workspace", path |-> "/workspace"]>>
MultiRoot == <<[name |-> "app", path |-> "/x/app"],
               [name |-> "app", path |-> "/y/app"],
               [name |-> "mono", path |-> "/z/mono"]>>

\* files of the three roots
APP_X == "file:///x/app/src/a.ts"
APP_Y == "file:///y/app/src/a.ts"
MONO == "file:///z/mono/app/src/a.ts"
RootUris == {APP_X, APP_Y, MONO}

\* uri.fsPath of a file: uri
fsPath(uri) == SubSeq(uri, Len("file://") + 1, Len(uri))

\* vscode.workspace.getWorkspaceFolder(uri): the folders that contain it
getWorkspaceFolder(uri) ==
    SelectSeq(workspaceFolders, LAMBDA f : StartsWith(fsPath(uri), f.path \o "/"))

\* vscode.workspace.asRelativePath(uri, includeWorkspaceFolder)
asRelativePath(uri, folder, includeRoot) ==
    LET rest == SubSeq(fsPath(uri), Len(folder.path) + 2, Len(fsPath(uri)))
    IN  IF includeRoot THEN folder.name \o "/" \o rest ELSE rest

\* relativePath(uri)
relativePath(uri) ==
    LET folder == getWorkspaceFolder(uri)
        multiRoot == Len(workspaceFolders) > 1
    IN  IF folder # <<>> THEN asRelativePath(uri, folder[1], multiRoot) ELSE fsPath(uri)

\* workspaceFolderName(uri)
workspaceFolderName(uri) ==
    LET folder == getWorkspaceFolder(uri)
    IN  IF folder # <<>> THEN folder[1].name ELSE Undefined

\* resolveCode(diagnostic).code, for a code that is absent or a string
resolveCode(d) == IF d.code = Undefined \/ d.code = Null THEN Undefined ELSE d.code

\* new Date().toISOString(), the clock counting seconds
Digits == "0123456789"
Digit(n) == SubSeq(Digits, n + 1, n + 1)
toISOString(t) ==
    "2026-01-01T00:00:" \o Digit((t \div 10) % 10) \o Digit(t % 10) \o ".000Z"

\* new DiagnosticStore(config), a fresh process (idCounter = 0)
NewStore(cfg) ==
    [ config |-> cfg,
      byUri |-> <<>>,
      bySeverity |-> [sev \in Severities |-> <<>>],
      bySource |-> <<>>,
      cachedSummaries |-> <<>>,
      fileCache |-> NewLRUCache(FileCacheMaxSize),
      idCounter |-> 0,
      summaryCounter |-> 0,
      emitterDisposed |-> FALSE,
      fired |-> <<>>,
      seen |-> <<>> ]

\* changeEmitter.fire(payload): the listeners run now, and read the index
\* as it is
fire(st, payload) ==
    IF st.emitterDisposed THEN st
    ELSE [st EXCEPT !.fired = Append(@, payload),
                    !.seen = Append(@, [byUri |-> st.byUri,
                                        bySeverity |-> st.bySeverity,
                                        bySource |-> st.bySource,
                                        cachedSummaries |-> st.cachedSummaries])]

\* enrich(uri, d), with the id nextId() returns
enrich(uri, d, id) ==
    [ id |-> id,
      uri |-> uri,
      relativePath |-> relativePath(uri),
      range |-> [startLine |-> d.line],
      message |-> d.message,
      severity |-> SEVERITY_MAP[d.severity + 1],
      source |-> d.source,
      code |-> resolveCode(d),
      timestamp |-> toISOString(now),
      workspaceFolder |-> workspaceFolderName(uri) ]

\* addToIndexes that looks at the first record of the list only
addToIndexes_FirstRecordOnly(st, uri, ds) ==
    LET first == SubSeq(ds, 1, 1)
        severities == {first[i].severity : i \in DOMAIN first} \cap DOMAIN st.bySeverity
        sources == {first[i].source : i \in {j \in DOMAIN first : Truthy(first[j].source)}}
    IN  [st EXCEPT !.bySeverity =
                      [sev \in DOMAIN st.bySeverity |->
                          IF sev \in severities
                          THEN SetAdd(st.bySeverity[sev], uri)
                          ELSE st.bySeverity[sev]],
                   !.bySource =
                      [x \in DOMAIN st.bySource \cup sources |->
                          IF x \in sources
                          THEN SetAdd(IF x \in DOMAIN st.bySource
                                      THEN st.bySource[x] ELSE <<>>, uri)
                          ELSE st.bySource[x]]]

\* addToIndexes(uri, diagnostics): after the loop, the set of every severity
\* and of every truthy source that occurs in the list holds the uri
addToIndexes(st, uri, ds) ==
    LET severities == {ds[i].severity : i \in DOMAIN ds} \cap DOMAIN st.bySeverity
        sources == {ds[i].source : i \in {j \in DOMAIN ds : Truthy(ds[j].source)}}
    IN  [st EXCEPT !.bySeverity =
                      [sev \in DOMAIN st.bySeverity |->
                          IF sev \in severities
                          THEN SetAdd(st.bySeverity[sev], uri)
                          ELSE st.bySeverity[sev]],
                   !.bySource =
                      [x \in DOMAIN st.bySource \cup sources |->
                          IF x \in sources
                          THEN SetAdd(IF x \in DOMAIN st.bySource
                                      THEN st.bySource[x] ELSE <<>>, uri)
                          ELSE st.bySource[x]]]

\* removeFromIndexes that walks the severity sets only
removeFromIndexes_SeverityOnly(st, uri) ==
    [st EXCEPT !.bySeverity = [sev \in DOMAIN st.bySeverity |-> SetDelete(st.bySeverity[sev], uri)]]

\* removeFromIndexes that empties every set the file is a member of
removeFromIndexes_EmptiesSets(st, uri) ==
    [st EXCEPT !.bySeverity = [sev \in DOMAIN st.bySeverity |->
                                  IF SetHas(st.bySeverity[sev], uri) THEN <<>>
                                  ELSE st.bySeverity[sev]],
               !.bySource = [src \in DOMAIN st.bySource |->
                                IF SetHas(st.bySource[src], uri) THEN <<>>
                                ELSE st.bySource[src]]]

\* removeFromIndexes(uri, diagnostics)
removeFromIndexes(st, uri) ==
    [st EXCEPT !.bySeverity = [sev \in DOMAIN st.bySeverity |-> SetDelete(st.bySeverity[sev], uri)],
               !.bySource = [src \in DOMAIN st.bySource |-> SetDelete(st.bySource[src], uri)]]

\* the include / exclude source filters and the cap of updateUri
filterDiagnostics(cfg, ds) ==
    LET inc == IF Len(cfg.includeSources) > 0
               THEN SelectSeq(ds, LAMBDA d : Truthy(d.source)
                                             /\ d.source \in Range(cfg.includeSources))
               ELSE ds
        exc == IF Len(cfg.excludeSources) > 0
               THEN SelectSeq(inc, LAMBDA d : ~Truthy(d.source)
                                              \/ d.source \notin Range(cfg.excludeSources))
               ELSE inc
    IN  SliceTo(exc, cfg.maxDiagnosticsPerFile)

\* updateUri that stores the enriched list even when it is empty
updateUri_StoresEmpty(st, uri, ds) ==
    LET s1 == IF MapHas(st.byUri, uri) THEN removeFromIndexes(st, uri) ELSE st
        filtered == filterDiagnostics(st.config, ds)
        enriched == [i \in DOMAIN filtered |-> enrich(uri, filtered[i], s1.idCounter + i - 1)]
        s2 == [s1 EXCEPT !.idCounter = @ + Len(filtered)]
        s3 == addToIndexes([s2 EXCEPT !.byUri = MapSet(@, uri, enriched)], uri, enriched)
    IN  [s3 EXCEPT !.fileCache = LRUDelete(@, uri), !.cachedSummaries = <<>>]

\* updateUri that leaves the cached summaries in place
updateUri_KeepsSummaries(st, uri, ds) ==
    LET s1 == IF MapHas(st.byUri, uri) THEN removeFromIndexes(st, uri) ELSE st
        filtered == filterDiagnostics(st.config, ds)
        enriched == [i \in DOMAIN filtered |-> enrich(uri, filtered[i], s1.idCounter + i - 1)]
        s2 == [s1 EXCEPT !.idCounter = @ + Len(filtered)]
        s3 == IF Len(enriched) = 0
              THEN [s2 EXCEPT !.byUri = MapDelete(@, uri)]
              ELSE addToIndexes([s2 EXCEPT !.byUri = MapSet(@, uri, enriched)], uri, enriched)
    IN  [s3 EXCEPT !.fileCache = LRUDelete(@, uri)]

\* updateUri that adds the enriched list to the list the file has
updateUri_AppendsToOld(st, uri, ds) ==
    LET old == IF MapHas(st.byUri, uri) THEN MapGet(st.byUri, uri) ELSE <<>>
        s1 == IF MapHas(st.byUri, uri) THEN removeFromIndexes(st, uri) ELSE st
        filtered == filterDiagnostics(st.config, ds)
        enriched == old \o [i \in DOMAIN filtered |->
                               enrich(uri, filtered[i], s1.idCounter + i - 1)]
        s2 == [s1 EXCEPT !.idCounter = @ + Len(filtered)]
        s3 == IF Len(enriched) = 0
              THEN [s2 EXCEPT !.byUri = MapDelete(@, uri)]
              ELSE addToIndexes([s2 EXCEPT !.byUri = MapSet(@, uri, enriched)], uri, enriched)
    IN  [s3 EXCEPT !.fileCache = LRUDelete(@, uri), !.cachedSummaries = <<>>]

\* updateUri that patches the file's list in place: a position the file
\* already has keeps its id
updateUri_KeepsIds(st, uri, ds) ==
    LET old == IF MapHas(st.byUri, uri) THEN MapGet(st.byUri, uri) ELSE <<>>
        s1 == IF MapHas(st.byUri, uri) THEN removeFromIndexes(st, uri) ELSE st
        filtered == filterDiagnostics(st.config, ds)
        enriched == [i \in DOMAIN filtered |->
                        enrich(uri, filtered[i],
                               IF i <= Len(old) THEN old[i].id ELSE s1.idCounter + i - 1)]
        s2 == [s1 EXCEPT !.idCounter = @ + Len(filtered)]
        s3 == IF Len(enriched) = 0
              THEN [s2 EXCEPT !.byUri = MapDelete(@, uri)]
              ELSE addToIndexes([s2 EXCEPT !.byUri = MapSet(@, uri, enriched)], uri, enriched)
    IN  [s3 EXCEPT !.fileCache = LRUDelete(@, uri), !.cachedSummaries = <<>>]

\* updateUri with a nextId that numbers the records of every call from 0
updateUri_RestartsIds(st, uri, ds) ==
    LET s1 == IF MapHas(st.byUri, uri) THEN removeFromIndexes(st, uri) ELSE st
        filtered == filterDiagnostics(st.config, ds)
        enriched == [i \in DOMAIN filtered |-> enrich(uri, filtered[i], i - 1)]
        s2 == [s1 EXCEPT !.idCounter = @ + Len(filtered)]
        s3 == IF Len(enriched) = 0
              THEN [s2 EXCEPT !.byUri = MapDelete(@, uri)]
              ELSE addToIndexes([s2 EXCEPT !.byUri = MapSet(@, uri, enriched)], uri, enriched)
    IN  [s3 EXCEPT !.fileCache = LRUDelete(@, uri), !.cachedSummaries = <<>>]

\* updateUri(uri, diagnostics)
updateUri(st, uri, ds) ==
    LET s1 == IF MapHas(st.byUri, uri) THEN removeFromIndexes(st, uri) ELSE st
        filtered == filterDiagnostics(st.config, ds)
        enriched == [i \in DOMAIN filtered |-> enrich(uri, filtered[i], s1.idCounter + i - 1)]
        s2 == [s1 EXCEPT !.idCounter = @ + Len(filtered)]
        s3 == IF Len(enriched) = 0
              THEN [s2 EXCEPT !.byUri = MapDelete(@, uri)]
              ELSE addToIndexes([s2 EXCEPT !.byUri = MapSet(@, uri, enriched)], uri, enriched)
    IN  [s3 EXCEPT !.fileCache = LRUDelete(@, uri), !.cachedSummaries = <<>>]

\* the loop of handleDiagnosticChange over event.uris
RECURSIVE updateEach(_, _, _)
updateEach(st, uris, diags) ==
    IF uris = <<>> THEN st
    ELSE updateEach(updateUri(st, Head(uris), getDiagnosticsOf(diags, Head(uris))),
                    Tail(uris), diags)

\* handleDiagnosticChange that reports only the uris that have diagnostics
handleDiagnosticChange_SkipsEmptied(st, uris, diags) ==
    LET s1 == updateEach(st, uris, diags)
        changedUris == SelectSeq(uris, LAMBDA u : Len(getDiagnosticsOf(diags, u)) > 0)
    IN  IF Len(changedUris) > 0 THEN fire(s1, changedUris) ELSE s1

\* handleDiagnosticChange that fires once the first file is re-indexed
handleDiagnosticChange_FiresEarly(st, uris, diags) ==
    IF uris = <<>> THEN st
    ELSE updateEach(fire(updateUri(st, Head(uris), getDiagnosticsOf(diags, Head(uris))),
                         uris),
                    Tail(uris), diags)

\* handleDiagnosticChange(event)
handleDiagnosticChange(st, uris, diags) ==
    LET s1 == updateEach(st, uris, diags)
        changedUris == uris
    IN  IF Len(changedUris) > 0 THEN fire(s1, changedUris) ELSE s1

\* resetIndexes()
resetIndexes(st) ==
    [st EXCEPT !.byUri = <<>>,
               !.bySource = <<>>,
               !.bySeverity = [sev \in Severities |-> <<>>],
               !.cachedSummaries = <<>>]

\* the loop of updateConfig over getDiagnostics(): the store and changedUris
RECURSIVE ingestAll(_, _, _)
ingestAll(st, all, changedUris) ==
    IF all = <<>> THEN [st |-> st, changedUris |-> changedUris]
    ELSE ingestAll(updateUri(st, Head(all).key, Head(all).val), Tail(all),
                   SetAdd(changedUris, Head(all).key))

\* updateConfig that forgets the uris known before the reset
updateConfig_ForgetsPrevious(st, cfg, all) ==
    LET s1 == resetIndexes([st EXCEPT !.config = cfg])
        r  == ingestAll(s1, all, <<>>)
    IN  IF Len(r.changedUris) > 0 THEN fire(r.st, r.changedUris) ELSE r.st

\* updateConfig that takes the configuration and leaves the index as it is
updateConfig_KeepsRecords(st, cfg, all) ==
    LET previousUris == MapKeys(st.byUri)
        s1 == [st EXCEPT !.config = cfg, !.cachedSummaries = <<>>]
    IN  IF Len(previousUris) > 0 THEN fire(s1, previousUris) ELSE s1

\* updateConfig(config), where `all` is what getDiagnostics() returns
updateConfig(st, cfg, all) ==
    LET previousUris == MapKeys(st.byUri)
        s1 == resetIndexes([st EXCEPT !.config = cfg])
        r  == ingestAll(s1, all, previousUris)
    IN  IF Len(r.changedUris) > 0 THEN fire(r.st, r.changedUris) ELSE r.st

\* getAll()
RECURSIVE Flatten(_)
Flatten(lists) == IF lists = <<>> THEN <<>> ELSE Head(lists) \o Flatten(Tail(lists))

getAll(st) == Flatten([i \in DOMAIN st.byUri |-> st.byUri[i].val])

\* a.localeCompare(b) for strings of lower-case letters, digits and
\* punctuation: the first differing character decides, in the collation
\* order punctuation < digits < letters, and a prefix sorts first
Collation == "_-,;:!?.()[]{}@*/&#%^+<=>|~$0123456789aAbBcCdDeEfFgGhHiIjJkKlLmMnNoOpPqQrRsStTuUvVwWxXyYzZ"
CharRank ==
    [c \in {SubSeq(Collation, i, i) : i \in 1..Len(Collation)} |->
        CHOOSE i \in 1..Len(Collation) : SubSeq(Collation, i, i) = c]

RECURSIVE CompareFrom(_, _, _)
CompareFrom(a, b, i) ==
    IF i > Len(a) /\ i > Len(b) THEN 0
    ELSE IF i > Len(a) THEN -1
    ELSE IF i > Len(b) THEN 1
    ELSE LET x == SubSeq(a, i, i)
             y == SubSeq(b, i, i)
         IN  IF x = y THEN CompareFrom(a, b, i + 1)
             ELSE IF CharRank[x] < CharRank[y] THEN -1 ELSE 1

localeCompare(a, b) == IF a = b THEN 0 ELSE CompareFrom(a, b, 1)

RECURSIVE InsertPath(_, _)
InsertPath(sorted, p) ==
    IF sorted = <<>> THEN <<p>>
    ELSE IF localeCompare(p, Head(sorted)) < 0 THEN <<p>> \o sorted
         ELSE <<Head(sorted)>> \o InsertPath(Tail(sorted), p)

RECURSIVE SortPaths(_)
SortPaths(paths) ==
    IF paths = <<>> THEN <<>>
    ELSE InsertPath(SortPaths(SubSeq(paths, 1, Len(paths) - 1)), paths[Len(paths)])

\* getFilesWithProblems()
getFilesWithProblems(st) ==
    LET files == SelectSeq(st.byUri, LAMBDA e : Len(e.val) > 0)
    IN  SortPaths([i \in DOMAIN files |-> files[i].val[1].relativePath])

SummaryGroupBy == {"severity", "source", "file", "workspace"}

\* the group a record is counted in
groupKey(d, groupBy) ==
    CASE groupBy = "severity" -> d.severity
      [] groupBy = "source" -> IF d.source = Undefined THEN "unknown" ELSE d.source
      [] groupBy = "file" -> d.relativePath
      [] groupBy = "workspace" ->
            IF d.workspaceFolder = Undefined THEN "default" ELSE d.workspaceFolder

\* a Set of paths in insertion order
RECURSIVE DistinctPaths(_)
DistinctPaths(ds) ==
    IF ds = <<>> THEN <<>>
    ELSE SetAdd(DistinctPaths(SubSeq(ds, 1, Len(ds) - 1)), ds[Len(ds)].relativePath)

\* getSummary that counts the files of a group where it counts its records
newSummary_CountsFiles(all, groupBy, ref) ==
    [ ref |-> ref,
      total |-> Len(all),
      byGroup |-> [k \in {groupKey(all[i], groupBy) : i \in DOMAIN all} |->
                      LET members == SelectSeq(all, LAMBDA d : groupKey(d, groupBy) = k)
                      IN  [count |-> Len(DistinctPaths(members)),
                           files |-> SortPaths(DistinctPaths(members))]] ]

\* the object getSummary builds on a cache miss; ref is its identity
newSummary(all, groupBy, ref) ==
    [ ref |-> ref,
      total |-> Len(all),
      byGroup |-> [k \in {groupKey(all[i], groupBy) : i \in DOMAIN all} |->
                      LET members == SelectSeq(all, LAMBDA d : groupKey(d, groupBy) = k)
                      IN  [count |-> Len(members),
                           files |-> SortPaths(DistinctPaths(members))]] ]

\* getSummary(groupBy): the summary returned, and the store after the call
getSummaryResult(st, groupBy) ==
    IF groupBy \in DOMAIN st.cachedSummaries THEN st.cachedSummaries[groupBy]
    ELSE newSummary(getAll(st), groupBy, st.summaryCounter)

getSummary(st, groupBy) ==
    IF groupBy \in DOMAIN st.cachedSummaries THEN st
    ELSE [st EXCEPT !.summaryCounter = @ + 1,
                    !.cachedSummaries =
                        [g \in DOMAIN st.cachedSummaries \cup {groupBy} |->
                            IF g = groupBy THEN getSummaryResult(st, groupBy)
                            ELSE st.cachedSummaries[g]]]

\* dispose() without this.enricher.clear()
dispose_LeavesCache(st) ==
    [st EXCEPT !.emitterDisposed = TRUE,
               !.byUri = <<>>,
               !.bySeverity = <<>>,
               !.bySource = <<>>,
               !.cachedSummaries = <<>>]

\* dispose()
dispose(st) ==
    [st EXCEPT !.emitterDisposed = TRUE,
               !.fileCache = LRUClear(@),
               !.byUri = <<>>,
               !.bySeverity = <<>>,
               !.bySource = <<>>,
               !.cachedSummaries = <<>>]

\* ---------------------------------------------------------------------
\* query and getForFile.  An optional field of a DiagnosticQuery that holds
\* a string is Undefined when absent; one that holds an array, a number or
\* a boolean is None when absent and Some(value) when given.
\* ---------------------------------------------------------------------
None == <<>>
Some(v) == <<v>>
OrElse(opt, default) == IF opt = None THEN default ELSE opt[1]

\* Array.prototype.slice(start, end)
Slice(s, start, end) ==
    LET from == IF start < 0 THEN (IF Len(s) + start < 0 THEN 0 ELSE Len(s) + start)
                ELSE IF start > Len(s) THEN Len(s) ELSE start
        to   == IF end < 0 THEN (IF Len(s) + end < 0 THEN 0 ELSE Len(s) + end)
                ELSE IF end > Len(s) THEN Len(s) ELSE end
    IN  SubSeq(s, from + 1, to)

\* normalizePath(value): value.replaceAll("\\", "/")
RECURSIVE normalizePath(_)
normalizePath(value) ==
    IF value = "" THEN ""
    ELSE (IF Head(value) = "\\" THEN "/" ELSE Head(value)) \o normalizePath(Tail(value))

\* diags[0]?.relativePath of an entry of byUri
firstRelativePath(e) == IF Len(e.val) > 0 THEN e.val[1].relativePath ELSE Undefined

\* findExactPathMatch(normalizedInput): the only key whose relative path is
\* the input; undefined when there is none or a second one
findExactPathMatch(st, normalizedInput) ==
    LET hits == SelectSeq(st.byUri, LAMBDA e :
                    /\ Truthy(firstRelativePath(e))
                    /\ normalizePath(firstRelativePath(e)) = normalizedInput)
    IN  IF Len(hits) = 1 THEN hits[1].key ELSE Undefined

\* findMultiRootMatch(normalizedInput)
findMultiRootMatch(st, normalizedInput) ==
    LET multiRoot == Len(workspaceFolders) > 1
        candidates == SelectSeq(st.byUri, LAMBDA e :
                    /\ Truthy(firstRelativePath(e))
                    /\ EndsWith(normalizePath(firstRelativePath(e)), "/" \o normalizedInput))
    IN  IF ~multiRoot THEN Undefined
        ELSE IF Len(candidates) = 1 THEN candidates[1].key ELSE Undefined

\* resolveUriOrPath(uriOrPath)
resolveUriOrPath(st, uriOrPath) ==
    IF MapHas(st.byUri, uriOrPath) THEN uriOrPath
    ELSE LET normalizedInput == normalizePath(uriOrPath)
             exactMatch == findExactPathMatch(st, normalizedInput)
         IN  IF exactMatch # Undefined THEN exactMatch
             ELSE findMultiRootMatch(st, normalizedInput)

\* getCandidateUris that tries the severity set before the uri
getCandidateUris_SeverityFirst(st, params) ==
    IF params.severity # None /\ Len(params.severity[1]) = 1
    THEN LET sev == params.severity[1][1]
         IN  IF sev \in DOMAIN st.bySeverity THEN st.bySeverity[sev] ELSE <<>>
    ELSE IF Truthy(params.uri)
    THEN LET resolved == resolveUriOrPath(st, params.uri)
         IN  IF Truthy(resolved) THEN <<resolved>> ELSE <<>>
    ELSE IF params.source # None /\ Len(params.source[1]) = 1
    THEN LET src == params.source[1][1]
         IN  IF src \in DOMAIN st.bySource THEN st.bySource[src] ELSE <<>>
    ELSE MapKeys(st.byUri)

\* getCandidateUris(params)
getCandidateUris(st, params) ==
    IF Truthy(params.uri)
    THEN LET resolved == resolveUriOrPath(st, params.uri)
         IN  IF Truthy(resolved) THEN <<resolved>> ELSE <<>>
    ELSE IF params.severity # None /\ Len(params.severity[1]) = 1
    THEN LET sev == params.severity[1][1]
         IN  IF sev \in DOMAIN st.bySeverity THEN st.bySeverity[sev] ELSE <<>>
    ELSE IF params.source # None /\ Len(params.source[1]) = 1
    THEN LET src == params.source[1][1]
         IN  IF src \in DOMAIN st.bySource THEN st.bySource[src] ELSE <<>>
    ELSE MapKeys(st.byUri)

\* str.split("/").filter((p) => p.length > 0)
RECURSIVE PartsFrom(_, _, _)
PartsFrom(str, i, part) ==
    IF i > Len(str) THEN (IF part = "" THEN <<>> ELSE <<part>>)
    ELSE IF SubSeq(str, i, i) = "/"
         THEN (IF part = "" THEN <<>> ELSE <<part>>) \o PartsFrom(str, i + 1, "")
         ELSE PartsFrom(str, i + 1, part \o SubSeq(str, i, i))

pathParts(str) == PartsFrom(str, 1, "")

\* pattern[i] (i counted from 0), undefined beyond the end
CharAt(str, i) == IF i < Len(str) THEN SubSeq(str, i + 1, i + 1) ELSE Undefined

\* matchSegment(pattern, segment): the loop, from the positions pi and si
\* with the last star at starPi / starSi (-1 when there is none)
RECURSIVE matchSegmentFrom(_, _, _, _, _, _)
matchSegmentFrom(pattern, segment, pi, si, starPi, starSi) ==
    IF si < Len(segment)
    THEN LET pc == CharAt(pattern, pi)
         IN  IF pi < Len(pattern) /\ (pc = "?" \/ pc = CharAt(segment, si))
             THEN matchSegmentFrom(pattern, segment, pi + 1, si + 1, starPi, starSi)
             ELSE IF pi < Len(pattern) /\ pc = "*"
             THEN matchSegmentFrom(pattern, segment, pi + 1, si, pi, si)
             ELSE IF starPi # -1
             THEN matchSegmentFrom(pattern, segment, starPi + 1, starSi + 1,
                                   starPi, starSi + 1)
             ELSE FALSE
    ELSE \A k \in pi..(Len(pattern) - 1) : CharAt(pattern, k) = "*"

matchSegment(pattern, segment) == matchSegmentFrom(pattern, segment, 0, 0, -1, -1)

\* matchParts(pIndex, vIndex) and handleDoubleStarPattern(pIndex, vIndex)
RECURSIVE matchParts(_, _, _, _)
RECURSIVE handleDoubleStarPattern(_, _, _, _)
matchParts(patternParts, valueParts, pIndex, vIndex) ==
    IF pIndex = Len(patternParts) THEN vIndex = Len(valueParts)
    ELSE IF patternParts[pIndex + 1] = "**"
    THEN handleDoubleStarPattern(patternParts, valueParts, pIndex, vIndex)
    ELSE IF vIndex = Len(valueParts) THEN FALSE
    ELSE IF ~matchSegment(patternParts[pIndex + 1], valueParts[vIndex + 1]) THEN FALSE
    ELSE matchParts(patternParts, valueParts, pIndex + 1, vIndex + 1)

handleDoubleStarPattern(patternParts, valueParts, pIndex, vIndex) ==
    LET last == CHOOSE k \in pIndex..(Len(patternParts) - 1) :
                    /\ \A j \in pIndex..k : patternParts[j + 1] = "**"
                    /\ k + 1 < Len(patternParts) => patternParts[k + 2] # "**"
    IN  IF last = Len(patternParts) - 1 THEN TRUE
        ELSE \E skip \in vIndex..Len(valueParts) :
                 matchParts(patternParts, valueParts, last + 1, skip)

\* globMatch(glob, value)
globMatch(glob, value) == matchParts(pathParts(glob), pathParts(value), 0, 0)

\* filterByUriPattern(candidateUris, pattern)
filterByUriPattern(st, candidateUris, pattern) ==
    SelectSeq(candidateUris, LAMBDA uri :
        /\ MapHas(st.byUri, uri)
        /\ Len(MapGet(st.byUri, uri)) > 0
        /\ Truthy(MapGet(st.byUri, uri)[1].relativePath)
        /\ globMatch(normalizePath(pattern),
                     normalizePath(MapGet(st.byUri, uri)[1].relativePath)))

\* filterByWorkspaceFolder(candidateUris, workspaceFolder)
filterByWorkspaceFolder(st, candidateUris, workspaceFolder) ==
    SelectSeq(candidateUris, LAMBDA uri :
        /\ MapHas(st.byUri, uri)
        /\ Len(MapGet(st.byUri, uri)) > 0
        /\ MapGet(st.byUri, uri)[1].workspaceFolder = workspaceFolder)

\* String.prototype.toLowerCase, for the letters A to Z
UpperCase == "ABCDEFGHIJKLMNOPQRSTUVWXYZ"
LowerCase == "abcdefghijklmnopqrstuvwxyz"

lowerChar(c) ==
    IF \E i \in 1..Len(UpperCase) : SubSeq(UpperCase, i, i) = c
    THEN LET i == CHOOSE j \in 1..Len(UpperCase) : SubSeq(UpperCase, j, j) = c
         IN  SubSeq(LowerCase, i, i)
    ELSE c

RECURSIVE toLowerCase(_)
toLowerCase(str) ==
    IF str = "" THEN ""
    ELSE lowerChar(SubSeq(str, 1, 1)) \o toLowerCase(SubSeq(str, 2, Len(str)))

\* str.split(sep).join(rep), for a non-empty sep: every occurrence of sep,
\* found from the left and not overlapping, becomes rep
RECURSIVE splitJoin(_, _, _)
splitJoin(str, sep, rep) ==
    IF Len(str) < Len(sep) THEN str
    ELSE IF StartsWith(str, sep)
         THEN rep \o splitJoin(SubSeq(str, Len(sep) + 1, Len(str)), sep, rep)
         ELSE SubSeq(str, 1, 1) \o splitJoin(SubSeq(str, 2, Len(str)), sep, rep)

\* str.includes(needle)
includes(str, needle) ==
    \E i \in 0..(Len(str) - Len(needle)) : SubSeq(str, i + 1, i + Len(needle)) = needle

\* the character "\x00" that the unescape step uses as its placeholder; it
\* is written as the form feed here
NUL == "\f"
Backslash == "\\"

\* the unescape step of matchMessagePattern
unescape(p) ==
    splitJoin(splitJoin(splitJoin(splitJoin(p, Backslash \o Backslash, NUL),
                                  Backslash \o "^", "^"),
                        Backslash \o "$", "$"),
              NUL, Backslash)

\* matchMessagePattern(message, pattern)
matchMessagePattern(message, pattern) ==
    LET anchoredStart == StartsWith(pattern, "^")
        p1 == IF anchoredStart THEN SubSeq(pattern, 2, Len(pattern)) ELSE pattern
        anchoredEnd == EndsWith(p1, "$")
        p2 == IF anchoredEnd THEN SubSeq(p1, 1, Len(p1) - 1) ELSE p1
        msg == toLowerCase(message)
        needle == toLowerCase(unescape(p2))
    IN  IF anchoredStart /\ anchoredEnd THEN msg = needle
        ELSE IF anchoredStart THEN StartsWith(msg, needle)
        ELSE IF anchoredEnd THEN EndsWith(msg, needle)
        ELSE includes(msg, needle)

\* matchesDiagnostic(d, params)
matchesDiagnostic(d, params) ==
    /\ params.severity # None => d.severity \in Range(params.severity[1])
    /\ params.source # None => Truthy(d.source) /\ d.source \in Range(params.source[1])
    /\ params.code # None =>
          d.code # Undefined /\ d.code # Null /\ d.code \in Range(params.code[1])
    /\ Truthy(params.messagePattern) =>
          matchMessagePattern(d.message, params.messagePattern)

\* collectDiagnosticsFromUris(candidateUris, params)
collectDiagnosticsFromUris(st, candidateUris, params) ==
    Flatten([i \in DOMAIN candidateUris |->
        IF MapHas(st.byUri, candidateUris[i])
        THEN SelectSeq(MapGet(st.byUri, candidateUris[i]),
                       LAMBDA d : matchesDiagnostic(d, params))
        ELSE <<>>])

SEVERITY_PRIORITY == [error |-> 0, warning |-> 1, information |-> 2, hint |-> 3]

\* the comparator of sortResults
compareRecords(a, b, sortBy, order) ==
    LET dir == IF order = "desc" THEN -1 ELSE 1
    IN  CASE sortBy = "severity" ->
               (SEVERITY_PRIORITY[a.severity] - SEVERITY_PRIORITY[b.severity]) * dir
          [] sortBy = "file" -> localeCompare(a.relativePath, b.relativePath) * dir
          [] sortBy = "timestamp" -> localeCompare(a.timestamp, b.timestamp) * dir
          [] sortBy = "source" ->
               localeCompare(IF a.source = Undefined THEN "" ELSE a.source,
                             IF b.source = Undefined THEN "" ELSE b.source) * dir
          [] OTHER -> 0

\* Array.prototype.sort with a comparator, a stable sort: an element comes
\* behind those that compare smaller and those that compare equal and
\* precede it in the array
stableSort(results, sortBy, order) ==
    LET before == [i \in DOMAIN results |->
                     Cardinality({j \in DOMAIN results :
                        LET c == compareRecords(results[j], results[i], sortBy, order)
                        IN  c < 0 \/ (c = 0 /\ j < i)})]
    IN  [k \in DOMAIN results |-> results[CHOOSE i \in DOMAIN results : before[i] = k - 1]]

\* sortResults that sorts ascending and reverses the list for "desc"
sortResults_ReversesAscending(results, sortBy, order) ==
    LET asc == stableSort(results, sortBy, "asc")
    IN  IF order = "desc" THEN [i \in DOMAIN asc |-> asc[Len(asc) + 1 - i]] ELSE asc

\* sortResults(results, sortBy, order)
sortResults(results, sortBy, order) == stableSort(results, sortBy, order)

DefaultLimit == 100

\* the matching records of query(params), as collected
collectMatches(st, params) ==
    LET byParams == getCandidateUris(st, params)
        byPattern == IF Truthy(params.uriPattern)
                     THEN filterByUriPattern(st, byParams, params.uriPattern)
                     ELSE byParams
        candidateUris == IF Truthy(params.workspaceFolder)
                         THEN filterByWorkspaceFolder(st, byPattern, params.workspaceFolder)
                         ELSE byPattern
    IN  collectDiagnosticsFromUris(st, candidateUris, params)

\* the filtered and sorted list of query(params), before pagination
sortedMatches(st, params) ==
    sortResults(collectMatches(st, params),
                IF params.sortBy = Undefined THEN "severity" ELSE params.sortBy,
                IF params.sortOrder = Undefined THEN "asc" ELSE params.sortOrder)

\* pagination without a default limit
paginate_NoDefaultLimit(results, params) ==
    Slice(results, OrElse(params.offset, 0),
          OrElse(params.offset, 0) + OrElse(params.limit, Len(results)))

\* pagination that takes `limit` as an end position
paginate_LimitAsEnd(results, params) ==
    Slice(results, OrElse(params.offset, 0), OrElse(params.limit, DefaultLimit))

\* the pagination of query(params)
paginate(results, params) ==
    LET offset == OrElse(params.offset, 0)
        limit  == OrElse(params.limit, DefaultLimit)
    IN  Slice(results, offset, offset + limit)

\* query(params) up to its context step: the records selected
query(st, params) == paginate(sortedMatches(st, params), params)

\* getForFile(uriOrPath) up to its context step
getForFile(st, uriOrPath) ==
    LET resolved == resolveUriOrPath(st, uriOrPath)
        uri == IF resolved = Undefined THEN uriOrPath ELSE resolved
    IN  IF MapHas(st.byUri, uri) THEN MapGet(st.byUri, uri) ELSE <<>>

\* ---------------------------------------------------------------------
\* ContextEnricher: src/unnamed/part_010.  A value of fileCache is the line
\* array, tagged (history) with whether the read it comes from was
\* performed before a later invalidation of the file.
\* ---------------------------------------------------------------------
\* text.split("\n")
RECURSIVE SplitFrom(_, _, _)
SplitFrom(text, i, line) ==
    IF i > Len(text) THEN <<line>>
    ELSE IF SubSeq(text, i, i) = "\n" THEN <<line>> \o SplitFrom(text, i + 1, "")
    ELSE SplitFrom(text, i + 1, line \o SubSeq(text, i, i))

split(text) == SplitFrom(text, 1, "")

\* getContextLines that gives no window where the radius reaches beyond the
\* first or the last line of the file
contextWindow_WholeWindowOnly(lines, line, count) ==
    IF line - count < 0 \/ line + count >= Len(lines) THEN None
    ELSE Some([before |-> Slice(lines, line - count, line),
               line |-> lines[line + 1],
               after |-> Slice(lines, line + 1, line + count + 1)])

\* the window getContextLines builds from the lines of a file: None when
\* the line is outside the file
contextWindow(lines, line, count) ==
    IF line < 0 \/ line >= Len(lines) THEN None
    ELSE LET start == IF line - count < 0 THEN 0 ELSE line - count
             end == IF line + count > Len(lines) - 1 THEN Len(lines) - 1 ELSE line + count
         IN  Some([before |-> Slice(lines, start, line),
                   line |-> lines[line + 1],
                   after |-> Slice(lines, line + 1, end + 1)])

\* one slot per record of addContext: its getContextLines call
SlotDone(ctx, hit, outdated) ==
    [state |-> "done", text |-> Undefined, failed |-> FALSE, ctx |-> ctx,
     hit |-> hit, outdated |-> outdated, lines |-> None]
\* openTextDocument(uri) was called: it reads the document as it is, or
\* fails when there is none, and resolves later
SlotReading(uri) ==
    [state |-> "reading",
     text |-> IF uri \in DOMAIN fileContents THEN fileContents[uri] ELSE Undefined,
     failed |-> uri \notin DOMAIN fileContents, ctx |-> None,
     hit |-> FALSE, outdated |-> FALSE, lines |-> None]

\* the synchronous part of addContext(diags, contextLines): every
\* getContextLines call runs up to its first await, in list order; a cache
\* hit promotes the entry, a miss requests the document
RECURSIVE startContext(_, _, _)
startContext(cache, diags, count) ==
    IF diags = <<>> THEN [cache |-> cache, slots |-> <<>>]
    ELSE LET d == Head(diags)
             cached == LRUGetResult(cache, d.uri)
             hit == count > 0 /\ LRUHas(cache, d.uri)
             slot == IF count <= 0 THEN SlotDone(None, FALSE, FALSE)
                     ELSE IF hit
                     THEN [SlotDone(contextWindow(cached.lines, d.range.startLine, count),
                                    TRUE, cached.outdated)
                              EXCEPT !.lines = Some(cached.lines)]
                     ELSE SlotReading(d.uri)
             rest == startContext(IF hit THEN LRUGet(cache, d.uri) ELSE cache,
                                  Tail(diags), count)
         IN  [cache |-> rest.cache, slots |-> <<slot>> \o rest.slots]

\* ctx ? { ...d, contextLines: ctx } : d
withContext(d, ctx) ==
    IF ctx = None THEN d
    ELSE [f \in DOMAIN d \cup {"contextLines"} |->
             IF f = "contextLines" THEN ctx[1] ELSE d[f]]

\* what Promise.all would give if it listed the results as they complete
assemble_InCompletionOrder(diags, slots, completed) ==
    LET order == completed \o SelectSeq([i \in DOMAIN slots |-> i],
                                        LAMBDA i : i \notin Range(completed))
    IN  [k \in DOMAIN order |-> withContext(diags[order[k]], slots[order[k]].ctx)]

\* what addContext would give if it looked the records up again by id
assemble_LooksUpAgain(diags, slots, completed) ==
    LET stored == {d.id : d \in Range(Flatten([i \in DOMAIN byUri |-> byUri[i].val]))}
        kept == SelectSeq([i \in DOMAIN slots |-> i], LAMBDA i : diags[i].id \in stored)
    IN  [k \in DOMAIN kept |-> withContext(diags[kept[k]], slots[kept[k]].ctx)]

\* what addContext would give if one missing window withheld them all
assemble_AllOrNothing(diags, slots, completed) ==
    IF \E i \in DOMAIN slots : slots[i].ctx = None THEN diags
    ELSE [i \in DOMAIN diags |-> withContext(diags[i], slots[i].ctx)]

\* the array Promise.all resolves to: one result per record, in list order,
\* in whatever order the calls completed
assemble(diags, slots, completed) ==
    [i \in DOMAIN diags |-> withContext(diags[i], slots[i].ctx)]

\* invalidate(uri), and the reads of uri under way become outdated
markOutdated(call, uris) ==
    [call EXCEPT !.slots = [i \in DOMAIN call.slots |->
        IF call.slots[i].state = "reading" /\ call.selected[i].uri \in uris
        THEN [call.slots[i] EXCEPT !.outdated = TRUE] ELSE call.slots[i]]]

\* getById(id): the first record with the id that the loop over
\* byUri.values() finds, None (undefined) when no list holds one
getById(st, id) ==
    LET found == SelectSeq(getAll(st), LAMBDA d : d.id = id)
    IN  IF found = <<>> THEN None ELSE Some(found[1])

\* the loops of getCounts over byUri.values(): the records of one severity
RECURSIVE tally(_, _)
tally(entries, sev) ==
    IF entries = <<>> THEN 0
    ELSE Len(SelectSeq(Head(entries).val, LAMBDA d : d.severity = sev))
         + tally(Tail(entries), sev)

\* getCounts() whose switch has no case for "hint"
getCounts_NoHints(st) ==
    [ errors |-> tally(st.byUri, "error"), warnings |-> tally(st.byUri, "warning"),
      info |-> tally(st.byUri, "information"), hints |-> 0 ]

\* getCounts()
getCounts(st) ==
    [ errors |-> tally(st.byUri, "error"), warnings |-> tally(st.byUri, "warning"),
      info |-> tally(st.byUri, "information"), hints |-> tally(st.byUri, "hint") ]

\* ---------------------------------------------------------------------
\* State, initial states and actions
\* ---------------------------------------------------------------------
\* the store object as a record, with no event delivered yet by this call
Store ==
    [ config |-> config, byUri |-> byUri, bySeverity |-> bySeverity,
      bySource |-> bySource, cachedSummaries |-> cachedSummaries,
      fileCache |-> fileCache, idCounter |-> idCounter,
      summaryCounter |-> summaryCounter,
      emitterDisposed |-> emitterDisposed, fired |-> <<>>, seen |-> <<>> ]

StoreBecomes(st) ==
    /\ config' = st.config
    /\ byUri' = st.byUri
    /\ bySeverity' = st.bySeverity
    /\ bySource' = st.bySource
    /\ cachedSummaries' = st.cachedSummaries
    /\ fileCache' = st.fileCache
    /\ idCounter' = st.idCounter
    /\ summaryCounter' = st.summaryCounter
    /\ emitterDisposed' = st.emitterDisposed
    /\ fired' = st.fired
    /\ seen' = st.seen

\* the store is in the state st, no event of it being looked at
StoreIs(st) ==
    /\ config = st.config
    /\ byUri = st.byUri
    /\ bySeverity = st.bySeverity
    /\ bySource = st.bySource
    /\ cachedSummaries = st.cachedSummaries
    /\ fileCache = st.fileCache
    /\ idCounter = st.idCounter
    /\ summaryCounter = st.summaryCounter
    /\ emitterDisposed = st.emitterDisposed
    /\ fired = <<>>
    /\ seen = <<>>

NoOp == [op |-> "none", uris |-> <<>>, groupBy |-> Null]

\* history: the index was mutated since the summaries were returned
Mutated(log) == [g \in DOMAIN log |-> [log[g] EXCEPT !.stale = TRUE]]

StoreInitWith(cfgs, snapshots) ==
    /\ diagnostics \in snapshots
    /\ \E cfg \in cfgs : StoreIs(NewStore(cfg))
    /\ lastOp = NoOp
    /\ summaryLog = <<>>

\* a language extension publishes a diagnostics list for a file
SetDiagnosticsIn(uris, lists) ==
    \E uri \in uris, ds \in lists :
        /\ diagnostics' = [u \in DOMAIN diagnostics \cup {uri} |->
                              IF u = uri THEN ds ELSE diagnostics[u]]
        /\ UNCHANGED <<lruVars, server, qryVars, debVars, storeVars, collVars>>

\* a language extension deletes a file's entry
DeleteDiagnosticsIn(uris) ==
    \E uri \in DOMAIN diagnostics \cap uris :
        /\ diagnostics' = Restrict(diagnostics, DOMAIN diagnostics \ {uri})
        /\ UNCHANGED <<lruVars, server, qryVars, debVars, storeVars, collVars>>

\* the batches of uris a diagnostics change event carries
Batches == {<<>>} \cup {<<u>> : u \in Uris} \cup {<<u, v>> : u, v \in Uris}

\* store.handleDiagnosticChange({ uris })
HandleDiagnosticChangeIn(batches) ==
    \E uris \in batches :
        LET st == handleDiagnosticChange(Store, uris, diagnostics) IN
        /\ st.idCounter <= MaxIds
        /\ StoreBecomes(st)
        /\ lastOp' = [NoOp EXCEPT !.op = "handleDiagnosticChange", !.uris = uris]
        /\ summaryLog' = IF uris = <<>> THEN summaryLog ELSE Mutated(summaryLog)
        /\ UNCHANGED <<lruVars, server, qryVars, debVars, collVars, diagnostics>>

\* store.updateConfig(config)
UpdateConfigIn(cfgs) ==
    \E cfg \in cfgs, all \in AllDiagnostics(diagnostics) :
        LET st == updateConfig(Store, cfg, all) IN
        /\ st.idCounter <= MaxIds
        /\ StoreBecomes(st)
        /\ lastOp' = [NoOp EXCEPT !.op = "updateConfig", !.uris = MapKeys(all)]
        /\ summaryLog' = Mutated(summaryLog)
        /\ UNCHANGED <<lruVars, server, qryVars, debVars, collVars, diagnostics>>

SetDiagnostics == SetDiagnosticsIn(Uris, RawLists)
DeleteDiagnostics == DeleteDiagnosticsIn(Uris)
HandleDiagnosticChange == HandleDiagnosticChangeIn(Batches)
UpdateConfig == UpdateConfigIn(Configs)

StoreNext ==
    \/ SetDiagnostics
    \/ DeleteDiagnostics
    \/ HandleDiagnosticChange
    \/ UpdateConfig

\* a specification of one component leaves the others as constructed
LRUIdle == lru = NewLRUCache(1) /\ lruOp = NoLRUOp /\ recency = <<>> /\ server = ServerIdle

\* the groupings the summaries are asked for
RequestedGroupBy == {"severity", "source", "file"}

\* store.getSummary(groupBy)
GetSummaryIn(groups) ==
    \E groupBy \in groups :
        LET st == getSummary(Store, groupBy) IN
        /\ st.summaryCounter <= MaxSummaries
        /\ StoreBecomes(st)
        /\ lastOp' = [NoOp EXCEPT !.op = "getSummary", !.groupBy = groupBy]
        /\ summaryLog' = [g \in DOMAIN summaryLog \cup {groupBy} |->
                             IF g = groupBy
                             THEN [ref |-> getSummaryResult(Store, groupBy).ref,
                                   stale |-> FALSE]
                             ELSE summaryLog[g]]
        /\ UNCHANGED <<lruVars, server, qryVars, debVars, collVars, diagnostics>>

GetSummary == GetSummaryIn(RequestedGroupBy)

\* store.dispose()
Dispose ==
    /\ StoreBecomes(dispose(Store))
    /\ lastOp' = [NoOp EXCEPT !.op = "dispose"]
    /\ summaryLog' = Mutated(summaryLog)
    /\ UNCHANGED <<lruVars, server, qryVars, debVars, collVars, diagnostics>>

\* the workload that goes with the summaries: both files have diagnostics,
\* FILE_A's are cleared and come back, files are re-indexed one at a time
SingleBatches == {<<>>} \cup {<<u>> : u \in Uris}
\* and the store is only read once it is disposed
HandleSingle == ~emitterDisposed /\ HandleDiagnosticChangeIn(SingleBatches)
UpdateConfigLive ==
    ~emitterDisposed /\ UpdateConfigIn({c \in Configs : c.includeSources = <<>>})
DisposeLive == ~emitterDisposed /\ Dispose
SetDiagnosticsA ==
    ~emitterDisposed /\ SetDiagnosticsIn({FILE_A}, {<<>>, <<Unused, TypeError>>})

SummaryNext ==
    \/ SetDiagnosticsA
    \/ HandleSingle
    \/ UpdateConfigLive
    \/ GetSummary
    \/ DisposeLive

\* no query is made: one clock tick, the workspace of one root
NoPending == [op |-> "none", arg |-> Undefined, selected |-> <<>>, count |-> 0,
              slots |-> <<>>, completed |-> <<>>]
NoReturn == [op |-> "none", arg |-> Undefined, records |-> <<>>, selected |-> <<>>,
             count |-> 0, slots |-> <<>>, completed |-> <<>>, stale |-> FALSE]

QueryIdle ==
    /\ now = 0
    /\ workspaceFolders = SingleRoot
    /\ fileContents = <<>>
    /\ inFlight = NoPending
    /\ returned = NoReturn

\* no collector is attached
CollectorIdle ==
    /\ pendingUris = <<>>
    /\ collectorDisposed = FALSE
    /\ notified = {}
    /\ lastFlush = [n |-> 0, calls |-> <<>>]
    /\ notifications = 0

StoreInit == StoreInitWith(Configs, {<<>>})

Init == QueryIdle /\ StoreInit /\ LRUIdle /\ DebounceInit /\ CollectorIdle

SummaryInit ==
    /\ QueryIdle
    /\ StoreInitWith({DefaultConfig}, {[u \in Uris |-> IF u = FILE_A THEN <<Unused, TypeError>>
                                                      ELSE <<Deprecated, Anonymous>>]})
    /\ LRUIdle /\ DebounceInit /\ CollectorIdle

\* ---------------------------------------------------------------------
\* DiagnosticCollector: src/src/diagnostics/collector.ts
\* Its debounced handler is the closure <<timer, timeouts>>, armed with the
\* quiet period of Delay ticks; pendingUris is the Map's key order.
\* ---------------------------------------------------------------------
\* the onDidChangeDiagnostics listener up to debouncedHandler()
RECURSIVE bufferUris(_, _)
bufferUris(pending, uris) ==
    IF uris = <<>> THEN pending
    ELSE bufferUris(SetAdd(pending, Head(uris)), Tail(uris))

\* the callback without pendingUris.clear()
flush_KeepsPending(pending) ==
    IF Len(pending) = 0 THEN [pendingUris |-> pending, calls |-> <<>>]
    ELSE [pendingUris |-> pending, calls |-> <<pending>>]

\* the debounced callback: what is left pending and the batches it passes
\* to store.handleDiagnosticChange
flush(pending) ==
    IF Len(pending) = 0 THEN [pendingUris |-> pending, calls |-> <<>>]
    ELSE [pendingUris |-> <<>>, calls |-> <<pending>>]

\* the store after the calls of one flush
RECURSIVE handleEach(_, _, _)
handleEach(st, calls, diags) ==
    IF calls = <<>> THEN st
    ELSE handleEach(handleDiagnosticChange(st, Head(calls), diags), Tail(calls), diags)

\* loadInitial(): one handleDiagnosticChange per file that has diagnostics
RECURSIVE loadInitial(_, _, _)
loadInitial(st, all, diags) ==
    IF all = <<>> THEN st
    ELSE loadInitial(IF Len(Head(all).val) > 0
                     THEN handleDiagnosticChange([st EXCEPT !.fired = <<>>],
                                                 <<Head(all).key>>, diags)
                     ELSE st,
                     Tail(all), diags)

\* the workspace when the collector is constructed
InitialSnapshots ==
    { <<>>, [u \in Uris |-> IF u = FILE_A THEN <<TypeError>> ELSE <<>>] }

NoFlush == [n |-> 0, calls |-> <<>>]

\* new DiagnosticCollector(store), on a store just constructed
CollectorInit ==
    /\ diagnostics \in InitialSnapshots
    /\ \E all \in AllDiagnostics(diagnostics) :
          LET st == loadInitial(NewStore(DefaultConfig), all, diagnostics) IN
          /\ StoreIs(st)
          /\ lastOp = NoOp
          /\ summaryLog = <<>>
    /\ pendingUris = <<>>
    /\ collectorDisposed = FALSE
    /\ notified = {}
    /\ lastFlush = NoFlush
    /\ notifications = 0
    /\ timer = Undefined
    /\ timeouts = <<>>
    /\ fnCalls = <<>>
    /\ lastCall = NoCall
    /\ callsMade = 0

\* what a language extension publishes along with a notification
NotifiedLists == {<<>>, <<TypeError>>}

\* a language extension changes the diagnostics of `uris` and vscode
\* delivers onDidChangeDiagnostics({ uris })
CollectorNotify ==
    \E uris \in Batches, ds \in NotifiedLists :
        LET d == debounced(Deb, Null, Delay) IN
        /\ ~collectorDisposed
        /\ notifications < MaxNotifications
        /\ diagnostics' = [u \in DOMAIN diagnostics \cup Range(uris) |->
                              IF u \in Range(uris) THEN ds ELSE diagnostics[u]]
        /\ pendingUris' = bufferUris(pendingUris, uris)
        /\ timer' = d.timer
        /\ timeouts' = d.timeouts
        /\ notified' = notified \cup Range(uris)
        /\ notifications' = notifications + 1
        /\ UNCHANGED <<lruVars, server, qryVars, storeVars, fnCalls, lastCall, callsMade,
                       collectorDisposed, lastFlush>>

\* one tick of the quiet period passes
CollectorTick ==
    /\ timeouts # <<>>
    /\ Due(timeouts) = {}
    /\ timeouts' = TimePasses(timeouts)
    /\ UNCHANGED <<lruVars, server, qryVars, storeVars, collVars, diagnostics,
                   timer, fnCalls, lastCall, callsMade>>

\* the debounced callback runs: timer = undefined, then the flush
CollectorFlush ==
    \E h \in Due(timeouts) :
        LET f  == flush(pendingUris)
            st == handleEach(Store, f.calls, diagnostics)
        IN  /\ timer' = timerCallback(Deb, h).timer
            /\ timeouts' = timerCallback(Deb, h).timeouts
            /\ pendingUris' = f.pendingUris
            /\ IF f.calls = <<>>
               THEN UNCHANGED storeVars
               ELSE /\ StoreBecomes(st)
                    /\ lastOp' = [NoOp EXCEPT !.op = "handleDiagnosticChange",
                                              !.uris = f.calls[Len(f.calls)]]
                    /\ summaryLog' = Mutated(summaryLog)
            /\ notified' = {}
            /\ lastFlush' = [n |-> lastFlush.n + 1, calls |-> f.calls]
            /\ UNCHANGED <<lruVars, server, qryVars, diagnostics, fnCalls, lastCall, callsMade,
                           collectorDisposed, notifications>>

\* collector.dispose(): cancel the handler, detach the listener
CollectorDispose ==
    /\ ~collectorDisposed
    /\ timer' = cancel(Deb).timer
    /\ timeouts' = cancel(Deb).timeouts
    /\ collectorDisposed' = TRUE
    /\ UNCHANGED <<lruVars, server, qryVars, storeVars, diagnostics, fnCalls, lastCall, callsMade,
                   pendingUris, notified, lastFlush, notifications>>

CollectorNext ==
    \/ CollectorNotify
    \/ CollectorTick
    \/ CollectorFlush
    \/ CollectorDispose

\* the collector in front of the store; the event loop lets time pass and
\* runs the callback that is due
\* (a step that records one more flush is a CollectorFlush step, and one is
\* possible exactly when a callback is due)
FlushRuns ==
    /\ Due(timeouts) # {}
    /\ lastFlush' = [n |-> lastFlush.n + 1, calls |-> flush(pendingUris).calls]

InitCollector == QueryIdle /\ CollectorInit /\ LRUIdle

SpecCollector ==
    /\ InitCollector
    /\ [][CollectorNext]_vars
    /\ WF_vars(CollectorTick) /\ WF_lastFlush(FlushRuns)

\* the LRUCache alone
LRUNext ==
    \/ \E key \in LRUKeys : CacheGet(key)
    \/ \E key \in LRUKeys, value \in LRUValues : CacheSet(key, value)
    \/ \E key \in LRUKeys : CacheDelete(key)
    \/ CacheClear

StoreIdle == StoreInitWith({DefaultConfig}, {<<>>})

InitLRU == QueryIdle /\ LRUInit /\ DebounceInit /\ StoreIdle /\ CollectorIdle

SpecLRU == InitLRU /\ [][LRUNext]_vars

\* the debounced function alone
DebounceNext ==
    \/ \E args \in CallArgs : DebouncedCall(args)
    \/ Tick
    \/ TimerFires
    \/ CancelCall

\* the event loop lets time pass and runs the callbacks that are due
InitDebounce == QueryIdle /\ DebounceInit /\ LRUIdle /\ StoreIdle /\ CollectorIdle

SpecDebounce ==
    /\ InitDebounce
    /\ [][DebounceNext]_vars
    /\ WF_vars(Tick) /\ WF_vars(TimerFires)

Spec == Init /\ [][StoreNext]_vars

\* the store with its summaries and its disposal
SpecSummary == SummaryInit /\ [][SummaryNext]_vars

\* ---------------------------------------------------------------------
\* Queries: query and getForFile on a store that is re-indexed file by
\* file, and the file reads their context step awaits.  One call is made
\* at a time and its result is taken before the next step.
\* ---------------------------------------------------------------------
MaxClock == 3
MaxPage == 3

indexVars == <<config, byUri, bySeverity, bySource, cachedSummaries, idCounter,
               summaryCounter, emitterDisposed, fired, seen, lastOp, summaryLog>>

NoParams ==
    [uri |-> Undefined, uriPattern |-> Undefined, workspaceFolder |-> Undefined,
     severity |-> None,
     source |-> None, code |-> None, messagePattern |-> Undefined,
     sortBy |-> Undefined, sortOrder |-> Undefined,
     offset |-> None, limit |-> None, includeContext |-> None, contextLines |-> None]

NoOptions == [includeContext |-> None, contextLines |-> None]

\* the documents
TextLong == "a0\na1\na2\na3"
TextShort == "b0"
Texts == {TextLong, TextShort}

\* the ids of the records stored now
StoredIds == {d.id : d \in Range(Flatten([i \in DOMAIN byUri |-> byUri[i].val]))}

\* the value a call resolves to, with the history of the call
Returns(call) ==
    [op |-> call.op, arg |-> call.arg,
     records |-> assemble(call.selected, call.slots, call.completed),
     selected |-> call.selected, count |-> call.count, slots |-> call.slots,
     completed |-> call.completed,
     stale |-> \E i \in DOMAIN call.selected : call.selected[i].id \notin StoredIds]

\* the call has selected its records: without includeContext it returns
\* them; with it, addContext starts and the call returns once no slot awaits
StartCall(op, arg, selected, includeContext, count) ==
    IF ~includeContext
    THEN /\ returned' = [NoReturn EXCEPT !.op = op, !.arg = arg, !.records = selected,
                                         !.selected = selected]
         /\ UNCHANGED <<inFlight, fileCache>>
    ELSE LET r == startContext(fileCache, selected, count)
             call == [op |-> op, arg |-> arg, selected |-> selected, count |-> count,
                      slots |-> r.slots, completed |-> <<>>]
         IN  /\ fileCache' = r.cache
             /\ IF \A i \in DOMAIN call.slots : call.slots[i].state = "done"
                THEN returned' = Returns(call) /\ UNCHANGED inFlight
                ELSE inFlight' = call /\ UNCHANGED returned

\* store.query(params)
Query(paramSet) ==
    \E params \in paramSet :
        /\ returned.op = "none"
        /\ inFlight.op = "none"
        /\ StartCall("query", params, query(Store, params),
                     params.includeContext = Some(TRUE),
                     OrElse(params.contextLines, config.contextLines))
        /\ UNCHANGED <<lruVars, server, debVars, collVars, indexVars, diagnostics,
                       now, workspaceFolders, fileContents>>

\* store.getForFile(uriOrPath, options)
GetForFile(identifiers, optionSet) ==
    \E uriOrPath \in identifiers, options \in optionSet :
        /\ returned.op = "none"
        /\ inFlight.op = "none"
        /\ StartCall("getForFile", uriOrPath, getForFile(Store, uriOrPath),
                     options.includeContext = Some(TRUE),
                     OrElse(options.contextLines, config.contextLines))
        /\ UNCHANGED <<lruVars, server, debVars, collVars, indexVars, diagnostics,
                       now, workspaceFolders, fileContents>>

\* the caller takes the result
Done ==
    /\ returned.op # "none"
    /\ returned' = NoReturn
    /\ UNCHANGED <<lruVars, server, debVars, collVars, storeVars, diagnostics,
                   now, workspaceFolders, fileContents, inFlight>>

\* the clock advances by t after an event, up to MaxClock
TimeAdvances(t) == now + t <= MaxClock /\ now' = now + t

\* a list is published for one file and its change event is handled
Reindex(uris, lists, ticks, maxIds) ==
    \E uri \in uris, ds \in lists, t \in ticks :
        LET published == [u \in DOMAIN diagnostics \cup {uri} |->
                             IF u = uri THEN ds ELSE diagnostics[u]]
            st == handleDiagnosticChange(Store, <<uri>>, published)
        IN  /\ returned.op = "none"
            /\ st.idCounter <= maxIds
            /\ diagnostics' = published
            /\ StoreBecomes(st)
            /\ lastOp' = [NoOp EXCEPT !.op = "handleDiagnosticChange", !.uris = <<uri>>]
            /\ summaryLog' = Mutated(summaryLog)
            /\ inFlight' = markOutdated(inFlight, {uri})
            /\ TimeAdvances(t)
            /\ UNCHANGED <<lruVars, server, debVars, collVars, workspaceFolders,
                           fileContents, returned>>

\* store.updateConfig(config) on the lists published so far
Reconfigure(cfgs, ticks) ==
    \E cfg \in cfgs, all \in AllDiagnostics(diagnostics), t \in ticks :
        LET st == updateConfig(Store, cfg, all)
        IN  /\ returned.op = "none"
            /\ cfg # config
            /\ st.idCounter <= MaxIds
            /\ StoreBecomes(st)
            /\ lastOp' = [NoOp EXCEPT !.op = "updateConfig", !.uris = MapKeys(all)]
            /\ summaryLog' = Mutated(summaryLog)
            /\ inFlight' = markOutdated(inFlight, Range(MapKeys(all)))
            /\ TimeAdvances(t)
            /\ UNCHANGED <<lruVars, server, debVars, collVars, diagnostics,
                           workspaceFolders, fileContents, returned>>

\* a document is edited: onDidChangeTextDocument invalidates its lines
EditFile(uris, ticks) ==
    \E uri \in uris, text \in Texts, t \in ticks :
        /\ returned.op = "none"
        /\ (IF uri \in DOMAIN fileContents THEN fileContents[uri] ELSE Undefined) # text
        /\ fileContents' = [u \in DOMAIN fileContents \cup {uri} |->
                               IF u = uri THEN text ELSE fileContents[u]]
        /\ fileCache' = LRUDelete(fileCache, uri)
        /\ inFlight' = markOutdated(inFlight, {uri})
        /\ TimeAdvances(t)
        /\ UNCHANGED <<lruVars, server, debVars, collVars, indexVars, diagnostics,
                       workspaceFolders, returned>>

\* the await of getFileLines resumes: the lines are cached and the window
\* is built, or the failure is caught; the call returns with the last slot
ReadCompletes ==
    \E i \in DOMAIN inFlight.slots :
        LET slot == inFlight.slots[i]
            d == inFlight.selected[i]
            lines == split(slot.text)
            ctx == IF slot.failed THEN None
                   ELSE contextWindow(lines, d.range.startLine, inFlight.count)
            call == [inFlight EXCEPT
                        !.slots[i] = [@ EXCEPT !.state = "done", !.ctx = ctx,
                                               !.lines = IF slot.failed THEN None
                                                         ELSE Some(lines)],
                        !.completed = Append(@, i)]
        IN  /\ slot.state = "reading"
            /\ fileCache' = IF slot.failed THEN fileCache
                            ELSE LRUSet(fileCache, d.uri,
                                        [lines |-> lines, outdated |-> slot.outdated])
            /\ IF \A j \in DOMAIN call.slots : call.slots[j].state = "done"
               THEN returned' = Returns(call) /\ inFlight' = NoPending
               ELSE inFlight' = call /\ UNCHANGED returned
            /\ UNCHANGED <<lruVars, server, debVars, collVars, indexVars, diagnostics, now,
                           workspaceFolders, fileContents>>

\* ---- queries without context, in a workspace of three roots ----
Identifiers == {APP_X, "app/src/a.ts", "src/a.ts", "mono\\app\\src\\a.ts"}

Sorts ==
    {[NoParams EXCEPT !.sortBy = sb, !.sortOrder = so] :
        sb \in {Undefined, "severity", "file", "timestamp", "source"},
        so \in {Undefined, "asc", "desc"}}

Pages ==
    {[NoParams EXCEPT !.offset = o, !.limit = l, !.sortBy = sb] :
        o \in {None} \cup {Some(n) : n \in 0..MaxPage},
        l \in {None} \cup {Some(n) : n \in 0..MaxPage},
        sb \in {Undefined, "file"}}

Filters ==
    {[NoParams EXCEPT !.uri = u] : u \in Identifiers}
    \cup {[NoParams EXCEPT !.severity = Some(sevs), !.offset = Some(1)] :
             sevs \in {<<"error">>, <<"error", "hint">>, <<>>}}
    \cup {[NoParams EXCEPT !.source = Some(srcs), !.limit = Some(1), !.sortOrder = "desc"] :
             srcs \in {<<"eslint">>, <<"eslint", "typescript">>}}
    \cup {[NoParams EXCEPT !.code = Some(<<"TS2322", "prefer-const">>)],
          [NoParams EXCEPT !.workspaceFolder = "app", !.sortBy = "timestamp"]}

QueryParams == Sorts \cup Pages \cup Filters

QueryNext ==
    \/ Reindex(RootUris, RawLists, {1}, MaxIds)
    \/ Query(QueryParams)
    \/ GetForFile(Identifiers, {NoOptions})
    \/ Done

InitQuery ==
    /\ now = 0
    /\ workspaceFolders = MultiRoot
    /\ fileContents = <<>>
    /\ inFlight = NoPending
    /\ returned = NoReturn
    /\ StoreIdle /\ LRUIdle /\ DebounceInit /\ CollectorIdle

SpecQuery == InitQuery /\ [][QueryNext]_vars

\* ---- query() on an index of more records than one page holds ----
MaxBulkIds == 210

\* 51 diagnostics of one file, errors and warnings in turn
BulkList == [i \in 1..51 |-> IF i % 2 = 0 THEN TypeError ELSE Unused]

BulkNext ==
    \/ Reindex(Uris, {<<>>, <<Deprecated>>, BulkList}, {1}, MaxBulkIds)
    \/ Query({NoParams})
    \/ Done

InitBulk == QueryIdle /\ StoreIdle /\ LRUIdle /\ DebounceInit /\ CollectorIdle

SpecBulk == InitBulk /\ [][BulkNext]_vars

\* ---- calls with context, while the index and the documents change ----
ContextParams ==
    {[NoParams EXCEPT !.includeContext = Some(TRUE), !.contextLines = c] :
        c \in {None, Some(1), Some(0)}}

ContextLists == {<<>>, <<Unused, TypeError>>, <<Anonymous>>}

ContextOptions == {[NoOptions EXCEPT !.includeContext = Some(TRUE)]}

ContextConfigs == {DefaultConfig, [DefaultConfig EXCEPT !.contextLines = 1]}

ContextNext ==
    \/ Reindex(Uris, ContextLists, {1}, MaxIds)
    \/ Reconfigure(ContextConfigs, {1})
    \/ EditFile({FILE_A}, {1})
    \/ Query(ContextParams)
    \/ GetForFile({FILE_A, "src/b.ts"}, ContextOptions)
    \/ ReadCompletes
    \/ Done

\* the store has loaded the first lists, one tick ago
InitContext ==
    /\ now = 1
    /\ workspaceFolders = SingleRoot
    /\ fileContents = [u \in {FILE_A} |-> TextLong]
    /\ inFlight = NoPending
    /\ returned = NoReturn
    /\ diagnostics = [u \in Uris |-> IF u = FILE_A THEN <<Unused, TypeError>>
                                     ELSE <<Anonymous>>]
    /\ StoreIs([handleDiagnosticChange(NewStore(DefaultConfig), <<FILE_A, FILE_B>>,
                                       diagnostics) EXCEPT !.fired = <<>>])
    /\ lastOp = NoOp
    /\ summaryLog = <<>>
    /\ LRUIdle /\ DebounceInit /\ CollectorIdle

SpecContext == InitContext /\ [][ContextNext]_vars

\* ---- the index under re-indexing and configuration changes ----
\* the configurations: the defaults, an allowlist, a denylist with a cap of
\* one, a denylist that names the empty source, and a negative cap
IndexConfigs ==
    { DefaultConfig,
      [DefaultConfig EXCEPT !.includeSources = <<"typescript">>],
      [DefaultConfig EXCEPT !.excludeSources = <<"eslint">>, !.maxDiagnosticsPerFile = 1],
      [DefaultConfig EXCEPT !.excludeSources = <<"">>],
      [DefaultConfig EXCEPT !.maxDiagnosticsPerFile = -1] }

IndexLists == {<<>>, <<Unused, TypeError>>, <<Deprecated, Anonymous, TypeError>>}

IndexNext ==
    \/ Reindex(Uris, IndexLists, {1}, MaxIds)
    \/ Reconfigure(IndexConfigs, {1})

InitIndex ==
    /\ QueryIdle
    /\ StoreInitWith(IndexConfigs, {<<>>})
    /\ LRUIdle /\ DebounceInit /\ CollectorIdle

SpecIndex == InitIndex /\ [][IndexNext]_vars

\* ---- a store that is disposed while it is in use ----
DisposeParams == {[NoParams EXCEPT !.includeContext = Some(TRUE)]}

DisposeNext ==
    \/ Reindex({FILE_A}, {<<Unused>>}, {1}, MaxIds)
    \/ Query(DisposeParams)
    \/ ReadCompletes
    \/ Done
    \/ GetSummary
    \/ DisposeLive

SpecDispose == InitContext /\ [][DisposeNext]_vars

\* ---- a store that is called again after it was disposed ----
ReuseParams ==
    {[NoParams EXCEPT !.severity = Some(<<sev>>)] : sev \in {"error", "warning"}}

ReuseNext ==
    \/ Reindex(Uris, {<<Unused>>, <<TypeError>>}, {1}, MaxIds)
    \/ Reconfigure(ContextConfigs, {1})
    \/ Query(ReuseParams)
    \/ Done
    \/ DisposeLive

SpecReuse == InitContext /\ [][ReuseNext]_vars

\* ---- the server under start, stop and restart calls that interleave ----
MaxTransports == 3    \* HttpTransports created in one run
MaxAwaiting == 2      \* start / stop / restart calls that await at once

\* server.start()
ServerStart ==
    /\ IF server.running
       THEN server' = [server EXCEPT !.done = [op |-> "start", result |-> "returned"]]
       ELSE /\ Len(server.transports) < MaxTransports
            /\ Len(server.calls) < MaxAwaiting
            /\ server' = startServer(Settled(server), "start")
    /\ UNCHANGED <<lruVars, debVars, qryVars, storeVars, collVars, diagnostics>>

\* server.stop()
ServerStop ==
    /\ IF ~server.running
       THEN server' = [server EXCEPT !.done = [op |-> "stop", result |-> "returned"]]
       ELSE IF server.transport = <<>>
       THEN server' = [server EXCEPT !.changeListener = FALSE, !.running = FALSE,
                                     !.done = [op |-> "stop", result |-> "returned"]]
       ELSE /\ Len(server.calls) < MaxAwaiting
            /\ server' = stopServer(Settled(server), "stop")
    /\ UNCHANGED <<lruVars, debVars, qryVars, storeVars, collVars, diagnostics>>

\* server.restart(): await this.stop(); await this.start()
ServerRestart ==
    /\ Len(server.transports) < MaxTransports
    /\ Len(server.calls) < MaxAwaiting
    /\ IF ~server.running
       THEN server' = startServer(Settled(server), "restart")
       ELSE IF server.transport = <<>>
       THEN server' = startServer([Settled(server) EXCEPT !.changeListener = FALSE,
                                                          !.running = FALSE], "restart")
       ELSE server' = stopServer(Settled(server), "restart")
    /\ UNCHANGED <<lruVars, debVars, qryVars, storeVars, collVars, diagnostics>>

\* server.updateConfig(config) with another port
ServerUpdateConfig ==
    \E port \in Ports \ {server.httpPort} :
        /\ server' = [Settled(server) EXCEPT !.httpPort = port]
        /\ UNCHANGED <<lruVars, debVars, qryVars, storeVars, collVars, diagnostics>>

\* a pending listen() settles and the start() that awaits it resumes
ListenSettles ==
    \E i \in DOMAIN server.calls :
        LET call == server.calls[i] IN
        /\ call.pc = "listen"
        /\ server' = started(listen(WithoutCall(Settled(server), i), call.t),
                             call.op, call.t)
        /\ UNCHANGED <<lruVars, debVars, qryVars, storeVars, collVars, diagnostics>>

\* transport.stop() settles and the stop() that awaits it resumes; inside
\* restart() the start() follows
CloseSettles ==
    \E i \in DOMAIN server.calls :
        LET call == server.calls[i]
            s1 == stopped(WithoutCall(Settled(server), i))
        IN  /\ call.pc = "close"
            /\ IF call.op = "stop"
               THEN server' = [s1 EXCEPT !.done = [op |-> "stop", result |-> "returned"]]
               ELSE /\ Len(s1.transports) < MaxTransports
                    /\ server' = startServer(s1, "restart")
            /\ UNCHANGED <<lruVars, debVars, qryVars, storeVars, collVars, diagnostics>>

ServerNext ==
    \/ ServerStart
    \/ ServerStop
    \/ ServerRestart
    \/ ServerUpdateConfig
    \/ ListenSettles
    \/ CloseSettles

InitServer == QueryIdle /\ StoreIdle /\ LRUIdle /\ DebounceInit /\ CollectorIdle

SpecServer == InitServer /\ [][ServerNext]_vars

\* ---- summaries of a workspace of three roots and a file outside them ----
OUTSIDE == "file:///tmp/scratch.ts"
GroupUris == {APP_X, APP_Y, OUTSIDE}
GroupLists == {<<Unused, TypeError>>, <<Deprecated, Anonymous>>}

GroupsNext ==
    \/ Reindex(GroupUris, GroupLists, {1}, MaxIds)
    \/ GetSummaryIn(SummaryGroupBy)

SpecGroups == InitQuery /\ [][GroupsNext]_vars

\* ---- query() with a message pattern ----
Said(message) == [Unused EXCEPT !.message = message]

WindowsPath == "C:" \o Backslash \o "tmp"

MatchLists ==
    { <<Said("Type error ["), Said("Missing semicolon"), Said("TYPE")>>,
      <<Said("Cost $5"), Said(WindowsPath), Said("x^2 " \o NUL)>> }

\* patterns without an escape, and patterns with one
PlainPatterns ==
    {"^type", "^TYPE$", "^type error [$", "OR [$", "colon$", "^missing", "[", "SEMI",
     "^", "$", "$5", "^2", NUL}
EscapedPatterns ==
    { "x" \o Backslash \o "^2",
      Backslash \o "^2",
      Backslash \o "$5",
      "^cost " \o Backslash \o "$5$",
      "c:" \o Backslash \o Backslash \o "TMP",
      "cost " \o Backslash \o "$" }

MatchParams ==
    {[NoParams EXCEPT !.messagePattern = pattern] :
        pattern \in PlainPatterns \cup EscapedPatterns}

MatchNext ==
    \/ Reindex(Uris, MatchLists, {1}, MaxIds)
    \/ Query(MatchParams)
    \/ Done

SpecMatch == InitBulk /\ [][MatchNext]_vars

\* ---- query() with a uriPattern ----
FILE_NESTED == "file:///workspace/src/utils/deep.ts"
FILE_STAR == "file:///workspace/src/*ba.ts"
GlobUris == {FILE_A, FILE_NESTED, FILE_STAR}

GlobPatterns ==
    {"**/*.ts", "src/utils/**", "src/*.ts", "*.ts", "src/**/**/deep.ts", "src/**/a.ts",
     "src/?.ts", "s*c/*/d??p.*", "src/a.ts/**", "**", "src/*a.ts", "src/a.t"}

GlobParams == {[NoParams EXCEPT !.uriPattern = pattern] : pattern \in GlobPatterns}

GlobNext ==
    \/ Reindex(GlobUris, {<<Unused>>}, {1}, MaxIds)
    \/ Query(GlobParams)
    \/ Done

SpecGlob == InitBulk /\ [][GlobNext]_vars

\* ---- queries that take their candidates from a membership set ----
FastParams ==
    {[NoParams EXCEPT !.severity = Some(<<sev>>)] :
        sev \in {"error", "warning", "information", "hint"}}
    \cup {[NoParams EXCEPT !.source = Some(<<src>>)] : src \in {"eslint", "typescript", ""}}

FastNext ==
    \/ Reindex(Uris, IndexLists, {1}, MaxIds)
    \/ Reconfigure(IndexConfigs, {1})
    \/ Query(FastParams)
    \/ Done

SpecFast == InitIndex /\ [][FastNext]_vars

\* ---- queries with several filters at once ----
FilterParams ==
    {[NoParams EXCEPT !.uri = u, !.uriPattern = g, !.workspaceFolder = w,
                      !.severity = sevs, !.source = srcs, !.code = codes,
                      !.messagePattern = pattern] :
        u \in {Undefined, APP_X, "nowhere.ts"},
        g \in {Undefined, "app/**"},
        w \in {Undefined, "app"},
        sevs \in {None, Some(<<"error">>), Some(<<"error", "hint">>)},
        srcs \in {None, Some(<<"typescript">>)},
        codes \in {None, Some(<<"TS2322", "prefer-const">>)},
        pattern \in {Undefined, "^type"}}

FilterNext ==
    \/ Reindex({APP_X, MONO}, {<<Unused, TypeError>>, <<Deprecated, Anonymous>>}, {1}, MaxIds)
    \/ Query(FilterParams)
    \/ Done

SpecFilter == InitQuery /\ [][FilterNext]_vars

\* =====================================================================
\* Properties of the store (specification Spec)
\* =====================================================================
RecordsOf(f) == IF MapHas(byUri, f) THEN MapGet(byUri, f) ELSE <<>>

InSeveritySet(f, sev) == sev \in DOMAIN bySeverity /\ SetHas(bySeverity[sev], f)
InSourceSet(f, src) == src \in DOMAIN bySource /\ SetHas(bySource[src], f)

HasSeverity(f, sev) == \E i \in DOMAIN RecordsOf(f) : RecordsOf(f)[i].severity = sev
HasSource(f, src) == \E i \in DOMAIN RecordsOf(f) : RecordsOf(f)[i].source = src

\* this step is a call of the store's method `op` (the calls leave the
\* workspace's diagnostics alone, the language extensions leave lastOp alone)
StoreCalled(op) == lastOp'.op = op /\ UNCHANGED diagnostics

\* C1 as claimed: for every file f, severity s and source x, f is in the
\* membership set of s iff a stored record of f has severity s, and in the
\* membership set of x iff a stored record of f has source x.
C1_MembershipIffRecord_AsClaimed ==
    \A f \in Uris :
        /\ \A sev \in Severities : InSeveritySet(f, sev) <=> HasSeverity(f, sev)
        /\ \A src \in Sources : InSourceSet(f, src) <=> HasSource(f, src)

\* C1 amended: the same, for every source name x other than the empty
\* string (a record whose source is "" is indexed under no source).
C1_MembershipIffRecord ==
    \A f \in Uris :
        /\ \A sev \in Severities : InSeveritySet(f, sev) <=> HasSeverity(f, sev)
        /\ \A src \in Sources \ {""} : InSourceSet(f, src) <=> HasSource(f, src)
        /\ ~InSourceSet(f, "")

\* a file indexed under two sources was re-indexed with records that have
\* no source or an empty one, while another file stays under both sources
C1_Witness ==
    /\ lastOp.op = "handleDiagnosticChange"
    /\ HasSource(FILE_A, "") /\ HasSeverity(FILE_A, "information")
    /\ InSeveritySet(FILE_A, "information") /\ ~InSeveritySet(FILE_A, "error")
    /\ "eslint" \in DOMAIN bySource /\ ~InSourceSet(FILE_A, "eslint")
    /\ idCounter >= 6
    /\ InSourceSet(FILE_B, "eslint") /\ HasSeverity(FILE_B, "warning")

\* the raw fields of a stored record
RawOf(rec) == [severity |-> rec.severity, source |-> rec.source, message |-> rec.message]
RawOfAll(recs) == [i \in DOMAIN recs |-> RawOf(recs[i])]
\* what the snapshot of f is to give under the configuration: the entries
\* the allowlist and the denylist let through, the first
\* maxDiagnosticsPerFile of them, with the severity by its name
SeverityName(n) ==
    CASE n = 0 -> "error" [] n = 1 -> "warning" [] n = 2 -> "information" [] n = 3 -> "hint"
NamesSource(d) == d.source # Undefined /\ d.source # ""
LetThrough(cfg, d) ==
    /\ cfg.includeSources # <<>> =>
          NamesSource(d) /\ \E i \in DOMAIN cfg.includeSources : cfg.includeSources[i] = d.source
    /\ NamesSource(d) =>
          \A i \in DOMAIN cfg.excludeSources : cfg.excludeSources[i] # d.source
ExpectedOf(cfg, ds) ==
    LET kept == SelectSeq(ds, LAMBDA d : LetThrough(cfg, d))
        n    == IF Len(kept) < cfg.maxDiagnosticsPerFile THEN Len(kept)
                ELSE cfg.maxDiagnosticsPerFile
    IN  [i \in 1..n |-> [severity |-> SeverityName(kept[i].severity),
                          source |-> kept[i].source,
                          message |-> kept[i].message]]

\* C3: after handleDiagnosticChange re-indexed f, the records of f are the
\* filtered and truncated snapshot of f in snapshot order, all of them new;
\* when that list is empty f has no entry in the primary map, and getAll and
\* getFilesWithProblems do not include f.  The map never holds an empty list.
C3_ReplacesWithSnapshot ==
    [][ /\ \A i \in DOMAIN byUri' : byUri'[i].val # <<>>
        /\ StoreCalled("handleDiagnosticChange") =>
             \A f \in Range(lastOp'.uris) :
                LET recs == IF MapHas(byUri', f) THEN MapGet(byUri', f) ELSE <<>>
                    expected == ExpectedOf(config, getDiagnosticsOf(diagnostics, f))
                    stAfter == [Store EXCEPT !.byUri = byUri']
                IN  /\ RawOfAll(recs) = expected
                    /\ \A i \in DOMAIN recs : recs[i].id >= idCounter /\ recs[i].uri = f
                    /\ expected = <<>> =>
                          /\ ~MapHas(byUri', f)
                          /\ \A i \in DOMAIN getAll(stAfter) : getAll(stAfter)[i].uri # f
                          /\ relativePath(f) \notin Range(getFilesWithProblems(stAfter)) ]_vars

\* a file that had two records was re-indexed from an empty snapshot
C3_Witness ==
    /\ lastOp = [NoOp EXCEPT !.op = "handleDiagnosticChange", !.uris = <<FILE_A>>]
    /\ ~MapHas(byUri, FILE_A)
    /\ idCounter >= 4
    /\ Len(RecordsOf(FILE_B)) = 2

\* C4: a handleDiagnosticChange call with a non-empty uri list fires exactly
\* one change event, whose payload holds every uri of the batch; a call with
\* an empty list fires none.
C4_OneEventPerBatch ==
    lastOp.op = "handleDiagnosticChange" =>
        IF lastOp.uris = <<>> THEN fired = <<>>
        ELSE Len(fired) = 1 /\ Range(lastOp.uris) \subseteq Range(fired[1])

\* a batch of two files, one of which ended with no diagnostics
C4_Witness ==
    /\ lastOp = [NoOp EXCEPT !.op = "handleDiagnosticChange", !.uris = <<FILE_A, FILE_B>>]
    /\ fired = <<(<<FILE_A, FILE_B>>)>>
    /\ ~MapHas(byUri, FILE_A) /\ MapHas(byUri, FILE_B)

Known(m) == Range(MapKeys(m))

\* C5 as claimed: the event of updateConfig carries exactly the uris known
\* to the index before the call or after the re-ingestion, and no event is
\* fired when there is none.
C5_ConfigEventIsUnion_AsClaimed ==
    [][ StoreCalled("updateConfig") =>
          LET union == Known(byUri) \cup Known(byUri')
          IN  IF union = {} THEN fired' = <<>>
              ELSE Len(fired') = 1 /\ Range(fired'[1]) = union ]_vars

\* C5 amended: the event carries exactly the uris known to the index before
\* the call together with every uri of the re-ingested snapshot, whether or
\* not it has a record afterwards, each once; no event when there is none.
C5_ConfigEventIsUnion ==
    [][ StoreCalled("updateConfig") =>
          LET union == Known(byUri) \cup DOMAIN diagnostics
          IN  /\ Known(byUri') \subseteq DOMAIN diagnostics
              /\ IF union = {} THEN fired' = <<>>
                 ELSE /\ Len(fired') = 1
                      /\ Range(fired'[1]) = union
                      /\ Len(fired'[1]) = Cardinality(union) ]_vars

\* updateConfig reported a file that disappeared and one that stays unknown
C5_Witness ==
    /\ lastOp.op = "updateConfig"
    /\ Len(fired) = 1
    /\ Range(fired[1]) = {FILE_A, FILE_B}
    /\ FILE_A \notin DOMAIN diagnostics
    /\ byUri = <<>>

\* =====================================================================
\* Properties of the summary cache (specification SpecSummary)
\* =====================================================================
\* C2: while the index is not mutated after getSummary(g) returned an
\* object, getSummary(g) returns that same object; once the index was
\* mutated (a re-indexing handleDiagnosticChange, updateConfig, dispose) the
\* next getSummary(g) returns an object built anew, never returned before,
\* whose total is the number of stored records.  A cached summary equals
\* what a computation over the current index gives.
C2_SummaryCaching ==
    \A g \in SummaryGroupBy :
        LET next == getSummaryResult(Store, g)
            fresh == newSummary(getAll(Store), g, summaryCounter)
        IN  /\ g \in DOMAIN cachedSummaries =>
                 /\ cachedSummaries[g].total = Len(getAll(Store))
                 /\ cachedSummaries[g].byGroup = fresh.byGroup
                 /\ cachedSummaries[g].ref < summaryCounter
            /\ g \in DOMAIN summaryLog =>
                 IF ~summaryLog[g].stale
                 THEN next.ref = summaryLog[g].ref
                 ELSE /\ next.ref # summaryLog[g].ref
                      /\ next.ref = summaryCounter
                      /\ next.total = Len(getAll(Store))

\* the second summary by severity, built after FILE_A lost its diagnostics
C2_Witness ==
    /\ lastOp = [NoOp EXCEPT !.op = "getSummary", !.groupBy = "severity"]
    /\ summaryLog["severity"] = [ref |-> 1, stale |-> FALSE]
    /\ cachedSummaries["severity"].total = 2
    /\ ~MapHas(byUri, FILE_A)

\* =====================================================================
\* Properties of debounce (specification SpecDebounce)
\* =====================================================================
\* C8: fn is invoked only for the most recent call of the debounced
\* function, exactly Delay after that call and with its arguments, and at
\* most once for it; the calls before it in the burst get no invocation of
\* their own (one timeout is pending at a time).  A call that is followed
\* by no other call and no cancel does get its invocation.
C8_DebounceTiming ==
    /\ [][ /\ fnCalls' # fnCalls =>
                 /\ lastCall.state = "pending"
                 /\ lastCall.age = Delay
                 /\ fnCalls' = Append(fnCalls, lastCall.args)
                 /\ lastCall'.state = "fired"
           /\ timer' # Undefined => DOMAIN timeouts' = {timer'}
           /\ timer' = Undefined => timeouts' = <<>> ]_vars
    /\ (lastCall.state = "pending") ~> (lastCall.state # "pending")

\* a burst of two calls gave one invocation, with the second call's arguments
C8_Witness ==
    /\ callsMade = 2
    /\ fnCalls = <<"second">>
    /\ lastCall = [args |-> "second", age |-> Delay, state |-> "fired", prev |-> "pending"]

\* C9: once the pending call is cancelled fn is not invoked for it; cancel
\* with nothing pending changes nothing and two cancels equal one; a call
\* made after a cancel arms one timeout of the full delay, and fn is
\* invoked for it unless another call or cancel takes its place.
C9_CancelPreventsAndIsIdempotent ==
    /\ [][ /\ lastCall.state = "cancelled" => fnCalls' = fnCalls
           /\ timer = Undefined => cancel(Deb) = Deb
           /\ cancel(cancel(Deb)) = cancel(Deb)
           /\ cancel(Deb).timer = Undefined /\ cancel(Deb).timeouts = <<>>
           /\ lastCall.state = "cancelled" /\ callsMade' # callsMade =>
                 /\ timer' # Undefined
                 /\ timeouts' = [h \in {timer'} |-> [left |-> Delay, args |-> lastCall'.args]]
           /\ lastCall'.prev = "cancelled" /\ fnCalls' # fnCalls =>
                 fnCalls' = Append(fnCalls, lastCall.args) ]_vars
    /\ (lastCall.state = "pending" /\ lastCall.prev = "cancelled")
          ~> (lastCall.state \in {"fired", "cancelled"} \/ lastCall.prev # "cancelled")

\* a call was cancelled, the next call was made and fn ran for it alone
C9_Witness ==
    /\ callsMade = 2
    /\ fnCalls = <<"second">>
    /\ lastCall = [args |-> "second", age |-> Delay, state |-> "fired", prev |-> "cancelled"]
\* =====================================================================
\* Properties of the LRU cache (specification SpecLRU)
\* =====================================================================
\* the present key whose most recent use is the oldest
LeastRecentlyUsed == recency[Len(recency)]

\* C10: when set() inserts a new key while maxSize keys are present, exactly
\* one key leaves the cache, the one whose most recent use (insertion, get
\* hit, set on the present key) is the oldest; the new key is present with
\* its value and every other key keeps its value.
C10_EvictsLeastRecentlyUsed ==
    [][ (lruOp'.op = "set" /\ ~LRUHas(lru, lruOp'.key) /\ LRUSize(lru) = lru.maxSize) =>
          /\ DOMAIN lru'.map = (DOMAIN lru.map \ {LeastRecentlyUsed}) \cup {lruOp'.key}
          /\ LeastRecentlyUsed \in DOMAIN lru.map
          /\ lruOp'.evicted = LeastRecentlyUsed
          /\ LRUSize(lru') = lru.maxSize
          /\ lru'.map[lruOp'.key].value = lruOp'.value
          /\ \A k \in DOMAIN lru.map \ {LeastRecentlyUsed} :
                lru'.map[k].value = lru.map[k].value ]_vars

\* with two keys present, the older one was read and the insertion of a
\* third key evicted the other
C10_Witness ==
    /\ lru.maxSize = 2
    /\ lruOp = [NoLRUOp EXCEPT !.op = "set", !.key = "c", !.value = "v1", !.evicted = "b"]
    /\ recency = <<"c", "a">>
    /\ LRUOrder(lru) = <<"c", "a">>
    /\ lru.map["a"].value = "v2"
\* =====================================================================
\* Properties of the collector (specification SpecCollector)
\* =====================================================================
\* this step is a run of the debounced callback
Flushed == lastFlush'.n # lastFlush.n

\* C6: the buffer holds each uri notified since the last flush once and no
\* other; a flush with a non-empty buffer makes one handleDiagnosticChange
\* call whose batch is the buffer (each notified uri once, none lost), which
\* fires one event, and leaves the buffer empty; a flush with an empty
\* buffer does not call the store.
C6_CoalescedBatch ==
    [][ /\ Range(pendingUris') = notified'
        /\ Len(pendingUris') = Cardinality(notified')
        /\ Flushed =>
              /\ pendingUris' = <<>>
              /\ IF notified = {}
                 THEN /\ lastFlush'.calls = <<>>
                      /\ UNCHANGED <<byUri, bySeverity, bySource, idCounter, lastOp, fired>>
                 ELSE /\ Len(lastFlush'.calls) = 1
                      /\ Range(lastFlush'.calls[1]) = notified
                      /\ Len(lastFlush'.calls[1]) = Cardinality(notified)
                      /\ lastOp' = [NoOp EXCEPT !.op = "handleDiagnosticChange",
                                                !.uris = lastFlush'.calls[1]]
                      /\ fired' = <<lastFlush'.calls[1]>> ]_vars

\* three notifications named FILE_B, FILE_A and FILE_B again before one
\* flush passed the batch <<FILE_B, FILE_A>> to the store
C6_Witness ==
    /\ notifications = 3
    /\ lastFlush = [n |-> 1, calls |-> <<(<<FILE_B, FILE_A>>)>>]
    /\ pendingUris = <<>>
    /\ fired = <<(<<FILE_B, FILE_A>>)>>

\* C7: while the collector is not disposed, a notified uri is eventually
\* passed to handleDiagnosticChange and its records are those of its
\* current snapshot; the buffer does not stay non-empty forever.
C7_NotifiedUrisAreReindexed ==
    /\ \A u \in Uris :
          (u \in notified /\ ~collectorDisposed)
            ~> \/ collectorDisposed
               \/ /\ u \notin notified
                  /\ u \in Range(lastOp.uris)
                  /\ RawOfAll(RecordsOf(u)) =
                        ExpectedOf(config, getDiagnosticsOf(diagnostics, u))
    /\ (pendingUris # <<>> /\ ~collectorDisposed)
          ~> (pendingUris = <<>> \/ collectorDisposed)

\* the notifications stopped and the flush re-indexed FILE_B, whose
\* diagnostic appeared after the collector was constructed
C7_Witness ==
    /\ ~collectorDisposed
    /\ notifications >= 2
    /\ lastFlush.n >= 1 /\ lastFlush.calls # <<>>
    /\ FILE_B \in Range(lastOp.uris)
    /\ notified = {} /\ timer = Undefined
    /\ Len(RecordsOf(FILE_B)) = 1
\* the keys get() would hit
HitKeys(c) == {k \in LRUKeys : LRUGetResult(c, k) # Undefined}

\* C11: the size never exceeds the capacity and is the number of keys get()
\* would hit, which are the keys on the linked list; set on a present key
\* replaces its value and leaves the size and the key set unchanged.
C11_SizeWithinCapacity ==
    /\ [](/\ LRUSize(lru) <= lru.maxSize
          /\ LRUSize(lru) = Cardinality(HitKeys(lru))
          /\ Range(LRUOrder(lru)) = HitKeys(lru)
          /\ Len(LRUOrder(lru)) = LRUSize(lru))
    /\ [][ (lruOp'.op = "set" /\ LRUHas(lru, lruOp'.key)) =>
              /\ LRUSize(lru') = LRUSize(lru)
              /\ HitKeys(lru') = HitKeys(lru)
              /\ LRUGetResult(lru', lruOp'.key) = lruOp'.value
              /\ lruOp'.evicted = Null ]_vars

\* a cache of capacity 1 holds the second key inserted, the first is gone
C11_Witness ==
    /\ lru.maxSize = 1
    /\ lruOp = [NoLRUOp EXCEPT !.op = "set", !.key = "b", !.value = "v2", !.evicted = "a"]
    /\ LRUSize(lru) = 1
    /\ HitKeys(lru) = {"b"}
\* =====================================================================
\* Properties of calls with context (specification SpecContext)
\* =====================================================================
\* a returned record without the field the context step adds
WithoutContext(d) == [f \in DOMAIN d \ {"contextLines"} |-> d[f]]

\* a call that was suspended in its context step returns in this step
ReturnsAfterSuspension == inFlight.op # "none" /\ returned'.op # "none"

\* C12: while a call is suspended the list it selected stays as it is,
\* whatever handleDiagnosticChange and updateConfig do meanwhile, and the
\* call returns exactly these records: as many, each with the same id and
\* the same field values, the context window apart.
C12_StaleButValidSnapshot ==
    [][ /\ (inFlight.op # "none" /\ inFlight'.op # "none") =>
              /\ inFlight'.selected = inFlight.selected
              /\ inFlight'.count = inFlight.count
        /\ ReturnsAfterSuspension =>
              /\ Len(returned'.records) = Len(inFlight.selected)
              /\ \A i \in DOMAIN inFlight.selected :
                    WithoutContext(returned'.records[i]) = inFlight.selected[i] ]_vars

\* a query returned records that updateConfig had replaced meanwhile
C12_Witness ==
    /\ returned.op = "query"
    /\ returned.completed # <<>>
    /\ returned.stale
    /\ lastOp.op = "updateConfig"
    /\ Len(returned.records) = 3
\* the list a call selects in the state it is made in
SelectedBy(op, arg) == IF op = "query" THEN query(Store, arg) ELSE getForFile(Store, arg)

HasContext(d) == "contextLines" \in DOMAIN d

\* C13: a call with includeContext awaits its reads on the post-sort,
\* post-paginate list of the state it was made in, and returns the same
\* records, as many and in that order, in whatever order the reads
\* complete; a returned record differs from the selected one in the field
\* contextLines only.
C13_OrderSurvivesEnrichment ==
    [][ /\ (inFlight.op = "none" /\ inFlight'.op # "none") =>
              inFlight'.selected = SelectedBy(inFlight'.op, inFlight'.arg)
        /\ (returned.op = "none" /\ returned'.op # "none") =>
              /\ [i \in DOMAIN returned'.records |-> returned'.records[i].id]
                   = [i \in DOMAIN returned'.selected |-> returned'.selected[i].id]
              /\ \A i \in DOMAIN returned'.records :
                    /\ DOMAIN returned'.records[i] \ {"contextLines"}
                          = DOMAIN returned'.selected[i]
                    /\ \A f \in DOMAIN returned'.selected[i] :
                          returned'.records[i][f] = returned'.selected[i][f]
        /\ (inFlight.op = "none" /\ returned.op = "none" /\ returned'.op # "none") =>
              returned'.selected = SelectedBy(returned'.op, returned'.arg) ]_vars

\* the read for the last record completed first, and windows were added
C13_Witness ==
    /\ returned.op = "query"
    /\ Len(returned.records) = 3
    /\ Len(returned.completed) = 3
    /\ returned.completed[1] = 3
    /\ HasContext(returned.records[1])
    /\ ~HasContext(returned.records[3])
\* C14: a getContextLines call served from the cache never gets lines of a
\* read that was under way when the file was invalidated: after
\* invalidate(f), caused by an edit of f or by re-indexing f, every call
\* that starts afterwards gets lines read after the invalidation.
C14_ContextCacheFreshness ==
    /\ \A i \in DOMAIN inFlight.slots :
          inFlight.slots[i].hit => ~inFlight.slots[i].outdated
    /\ \A i \in DOMAIN returned.slots :
          returned.slots[i].hit => ~returned.slots[i].outdated
Min(a, b) == IF a < b THEN a ELSE b

\* the window of radius r around line `line` (counted from 0) of a file
WindowOf(lines, line, r) ==
    [before |-> [k \in 1..Min(r, line) |-> lines[line - Min(r, line) + k]],
     line |-> lines[line + 1],
     after |-> [k \in 1..Min(r, Len(lines) - 1 - line) |-> lines[line + 1 + k]]]

\* the call of slot i could not load a window: the file could not be read
\* or the record's start line is outside it
FaultAt(call, i) ==
    \/ call.slots[i].failed
    \/ /\ call.slots[i].lines # None
       /\ call.selected[i].range.startLine >= Len(call.slots[i].lines[1])

\* C15: a call with includeContext and a positive radius returns every
\* record whose file cannot be read, or whose start line is outside the
\* file, unchanged and without contextLines, and every other record of the
\* same result with its window.
C15_ContextFaultsAreLocal ==
    [][ (returned.op = "none" /\ returned'.op # "none" /\ returned'.count > 0) =>
          \A i \in DOMAIN returned'.selected :
             IF FaultAt(returned', i)
             THEN returned'.records[i] = returned'.selected[i]
             ELSE /\ returned'.slots[i].lines # None
                  /\ HasContext(returned'.records[i])
                  /\ returned'.records[i].contextLines
                       = WindowOf(returned'.slots[i].lines[1],
                                  returned'.selected[i].range.startLine, returned'.count)
                  /\ WithoutContext(returned'.records[i]) = returned'.selected[i] ]_vars

\* one result with a window, a start line outside its file and an
\* unreadable file
C15_Witness ==
    /\ returned.op = "query"
    /\ Len(returned.records) = 3
    /\ HasContext(returned.records[1])
    /\ ~returned.slots[2].failed /\ FaultAt(returned, 2) /\ ~HasContext(returned.records[2])
    /\ returned.slots[3].failed /\ ~HasContext(returned.records[3])
\* =====================================================================
\* Properties of query and getForFile (specification SpecQuery)
\* =====================================================================
\* the file identifier of the call that returned, Undefined if it has none
IdentifierOf(r) ==
    CASE r.op = "query" -> r.arg.uri
      [] r.op = "getForFile" -> r.arg
      [] OTHER -> Undefined

\* the indexed files whose normalized relative path is the identifier
FilesAt(path) ==
    {byUri[i].key : i \in {j \in DOMAIN byUri :
        normalizePath(byUri[j].val[1].relativePath) = path}}

\* C16: a call whose identifier is no key of the index, and is the
\* normalized relative path of two or more indexed files, returns no
\* record of any file.
C16_AmbiguousPathIsUnresolved ==
    ( /\ IdentifierOf(returned) # Undefined
      /\ ~MapHas(byUri, IdentifierOf(returned))
      /\ Cardinality(FilesAt(IdentifierOf(returned))) >= 2 )
    => returned.records = <<>>
Max(a, b) == IF a > b THEN a ELSE b

\* C17: query with offset o and limit l (0 and 100 when absent) returns
\* the elements at positions [o, o + l) of the sorted unpaginated result
\* of the same query on the same state: min(l, max(0, n - o)) records for
\* n matching ones, none when o is at or beyond n.
C17_Pagination ==
    returned.op = "query" =>
        LET full == sortedMatches(Store, returned.arg)
            o == OrElse(returned.arg.offset, 0)
            l == OrElse(returned.arg.limit, DefaultLimit)
            n == Len(full)
        IN  /\ Len(returned.records) = Min(l, Max(0, n - o))
            /\ returned.records = [i \in 1..Min(l, Max(0, n - o)) |-> full[o + i]]
            /\ o >= n => returned.records = <<>>

\* the page of two records behind the first two of six
C17_Witness ==
    /\ returned.op = "query"
    /\ returned.arg.offset = Some(2)
    /\ returned.arg.limit = Some(2)
    /\ returned.arg.sortBy = "file"
    /\ Len(sortedMatches(Store, returned.arg)) = 6
    /\ Len(returned.records) = 2
\* the rank of a severity: error < warning < information < hint
SeverityRank(sev) ==
    CASE sev = "error" -> 1 [] sev = "warning" -> 2
      [] sev = "information" -> 3 [] sev = "hint" -> 4

\* how the sort keys of two records compare: negative, 0 or positive
KeyOrder(a, b, sortBy) ==
    CASE sortBy = "severity" -> SeverityRank(a.severity) - SeverityRank(b.severity)
      [] sortBy = "file" -> localeCompare(a.relativePath, b.relativePath)
      [] sortBy = "timestamp" -> localeCompare(a.timestamp, b.timestamp)
      [] sortBy = "source" ->
            localeCompare(IF a.source = Undefined THEN "" ELSE a.source,
                          IF b.source = Undefined THEN "" ELSE b.source)

\* the position of the record with this id in a list
PositionIn(list, id) == CHOOSE i \in DOMAIN list : list[i].id = id

\* the call returned the whole sorted list
Unpaginated(r) ==
    r.op = "query" /\ r.arg.offset = None /\ r.arg.limit = None
    /\ Len(collectMatches(Store, r.arg)) <= DefaultLimit

\* C19: the unpaginated result of query holds the matching records, each
\* once, with the requested key (severity by default) non-decreasing for
\* "asc" (the default) and non-increasing for "desc"; records whose keys
\* compare equal are in the order they were collected in, in both directions.
C19_StableSort ==
    Unpaginated(returned) =>
        LET pre == collectMatches(Store, returned.arg)
            res == returned.records
            sortBy == IF returned.arg.sortBy = Undefined THEN "severity"
                      ELSE returned.arg.sortBy
            desc == returned.arg.sortOrder = "desc"
        IN  /\ Len(res) = Len(pre)
            /\ Range(res) = Range(pre)
            /\ \A i, j \in DOMAIN res : i < j =>
                  LET k == KeyOrder(res[i], res[j], sortBy)
                  IN  /\ IF desc THEN k >= 0 ELSE k <= 0
                      /\ k = 0 => PositionIn(pre, res[i].id) < PositionIn(pre, res[j].id)

\* six records by source, descending: the two without a source name come
\* last, twice in the order they were collected in
C19_Witness ==
    /\ Unpaginated(returned)
    /\ returned.arg.sortBy = "source"
    /\ returned.arg.sortOrder = "desc"
    /\ Len(returned.records) = 6
    /\ returned.records # collectMatches(Store, returned.arg)
    /\ returned.records[3].source = Undefined
    /\ returned.records[4].source = ""
    /\ returned.records[5].source = Undefined
    /\ returned.records[6].source = ""
\* =====================================================================
\* Properties of query() (specification SpecBulk)
\* =====================================================================
\* C18 as claimed: query() with no parameters returns every stored
\* record, as many as getAll().
C18_QueryReturnsAll_AsClaimed ==
    (returned.op = "query" /\ returned.arg = NoParams) =>
        /\ Len(returned.records) = Len(getAll(Store))
        /\ Range(returned.records) = Range(getAll(Store))

\* C18: query() with no parameters returns stored records, each once:
\* every stored record when at most 100 are stored, and otherwise 100 of
\* them, none of a higher severity rank than a record it leaves out.
C18_QueryReturnsFirstPage ==
    (returned.op = "query" /\ returned.arg = NoParams) =>
        LET all == getAll(Store)
            res == returned.records
        IN  /\ Len(res) = Min(100, Len(all))
            /\ Cardinality({d.id : d \in Range(res)}) = Len(res)
            /\ Range(res) \subseteq Range(all)
            /\ Len(all) <= 100 => Range(res) = Range(all)
            /\ \A d \in Range(all) \ Range(res) : \A e \in Range(res) :
                  SeverityRank(e.severity) <= SeverityRank(d.severity)

\* 102 records are stored and 100 returned
C18_Witness ==
    /\ returned.op = "query"
    /\ returned.arg = NoParams
    /\ Len(getAll(Store)) = 102
    /\ Len(returned.records) = 100
\* C20: in every reachable state the four tallies of getCounts() add up to
\* the number of stored records, the length of getAll()
C20_CountsSumToTotal ==
    LET counts == getCounts(Store)
    IN  counts.errors + counts.warnings + counts.info + counts.hints
            = Len(getAll(Store))

\* C20 witness: records of three severities, a hint among them, are stored
\* in two files after a change event was handled
C20_Witness ==
    /\ lastOp.op = "handleDiagnosticChange"
    /\ Len(byUri) = 2
    /\ getCounts(Store).hints >= 1
    /\ getCounts(Store).errors >= 1
    /\ getCounts(Store).info >= 1
    /\ Len(getAll(Store)) >= 3
\* =====================================================================
\* Properties of the index (specification SpecIndex)
\* =====================================================================
\* the store after the step
StoreAfter ==
    [Store EXCEPT !.config = config', !.byUri = byUri', !.bySeverity = bySeverity',
                  !.bySource = bySource', !.idCounter = idCounter']

\* what a client can observe of the index, ids and timestamps apart: the
\* number of records of every file, the tallies, and which file is in which
\* severity and source set
Observable(st) ==
    [ perFile |-> {<<st.byUri[i].key, Len(st.byUri[i].val)>> : i \in DOMAIN st.byUri},
      counts |-> getCounts(st),
      severity |-> {<<sev, f>> \in (DOMAIN st.bySeverity) \X Uris : SetHas(st.bySeverity[sev], f)},
      source |-> {<<src, f>> \in (DOMAIN st.bySource) \X Uris : SetHas(st.bySource[src], f)} ]

\* this step is a handleDiagnosticChange call for the file the previous
\* call was for, on the same list and under the same configuration
ReindexedAgain ==
    /\ now' # now
    /\ lastOp.op = "handleDiagnosticChange"
    /\ lastOp'.op = "handleDiagnosticChange"
    /\ lastOp'.uris = lastOp.uris
    /\ diagnostics' = diagnostics
    /\ config' = config

\* C21: handleDiagnosticChange for a file f, made a second time in a row on
\* the same raw list and configuration, leaves the observable state of the
\* first call: the number of records of every file, getCounts() and the
\* severity and source membership sets are the same (the ids are new).
C21_ReindexIsIdempotent ==
    [][ ReindexedAgain =>
          /\ Observable(StoreAfter) = Observable(Store)
          /\ RawOfAll(getAll(StoreAfter)) = RawOfAll(getAll(Store)) ]_vars

\* C21 witness: FILE_A was re-indexed twice from the same list of two
C21_Witness ==
    /\ lastOp = [NoOp EXCEPT !.op = "handleDiagnosticChange", !.uris = <<FILE_A>>]
    /\ now = 2
    /\ config = DefaultConfig
    /\ idCounter = 4
    /\ Len(byUri) = 1
    /\ Len(RecordsOf(FILE_A)) = 2
    /\ RecordsOf(FILE_A)[1].id = 2

\* the ids of the records a store holds for file f
IdsOf(st, f) ==
    IF MapHas(st.byUri, f) THEN {MapGet(st.byUri, f)[i].id : i \in DOMAIN MapGet(st.byUri, f)}
    ELSE {}

\* C22: after a file was re-indexed (by handleDiagnosticChange, or by
\* updateConfig, which re-indexes every file), getById returns undefined
\* for every id a record of that file had before, also when the new
\* snapshot is the old one.
C22_OldIdsAreDiscarded ==
    [][ now' # now =>
          \A f \in Uris :
             (lastOp'.op = "updateConfig" \/ f \in Range(lastOp'.uris)) =>
                \A id \in IdsOf(Store, f) : getById(StoreAfter, id) = None ]_vars

\* C22 witness: FILE_A was re-indexed from the list it was indexed from,
\* while FILE_B keeps its two records
C22_Witness ==
    /\ lastOp = [NoOp EXCEPT !.op = "handleDiagnosticChange", !.uris = <<FILE_A>>]
    /\ now = 3
    /\ config = DefaultConfig
    /\ idCounter = 6
    /\ IdsOf(Store, FILE_A) = {4, 5}
    /\ IdsOf(Store, FILE_B) = {2, 3}
    /\ RawOfAll(RecordsOf(FILE_A)) = RawOfAll(RecordsOf(FILE_B))
    /\ getById(Store, 0) = None
    /\ getById(Store, 4) # None

\* C23: the records of the index have pairwise distinct ids, every one
\* issued by the counter; an id issued before a step belongs after it to
\* the record it belonged to or to none; getById(id) returns the stored
\* record with that id.
C23_IdsAreUnique ==
    [][ LET after == getAll(StoreAfter) IN
          /\ \A i, j \in DOMAIN after : i # j => after[i].id # after[j].id
          /\ \A i \in DOMAIN after :
                /\ after[i].id < idCounter'
                /\ after[i].id < idCounter => after[i] \in Range(getAll(Store))
                /\ getById(StoreAfter, after[i].id) = Some(after[i]) ]_vars

\* C23 witness: four records in two files, the ids 0 and 1 discarded
C23_Witness ==
    /\ idCounter = 6
    /\ Len(getAll(Store)) = 4
    /\ {getAll(Store)[i].id : i \in DOMAIN getAll(Store)} = 2..5
    /\ getById(Store, 3) = Some(RecordsOf(FILE_B)[2])

\* C24 as claimed: every stored record conforms to the active
\* configuration: with a non-empty includeSources its source is in
\* includeSources, and its source is not in excludeSources.
C24_SourceFilterConformance_AsClaimed ==
    \A i \in DOMAIN getAll(Store) :
        LET d == getAll(Store)[i] IN
        /\ config.includeSources # <<>> => d.source \in Range(config.includeSources)
        /\ d.source \notin Range(config.excludeSources)

\* C24: every stored record conforms to the active configuration, also
\* right after updateConfig: with a non-empty includeSources it has a
\* non-empty source that is in includeSources, and a record with a
\* non-empty source has a source that is not in excludeSources (the empty
\* source counts as no source: it is never let in by name and never excluded).
C24_SourceFilterConformance ==
    \A i \in DOMAIN getAll(Store) :
        LET d == getAll(Store)[i] IN
        /\ config.includeSources # <<>> =>
              NamesSource(d) /\ d.source \in Range(config.includeSources)
        /\ NamesSource(d) => d.source \notin Range(config.excludeSources)

\* C24 witness: updateConfig brought a denylist that removed the eslint
\* record FILE_A had under the configuration before
C24_Witness ==
    /\ lastOp.op = "updateConfig"
    /\ config.excludeSources = <<"eslint">>
    /\ getDiagnosticsOf(diagnostics, FILE_A) = <<Unused, TypeError>>
    /\ idCounter = 3
    /\ RawOfAll(RecordsOf(FILE_A)) = <<RawOf(enrich(FILE_A, TypeError, 0))>>

\* C25: every file holds at most maxDiagnosticsPerFile records of the
\* active configuration, and they are the first entries of its
\* source-filtered snapshot, in snapshot order.
C25_PerFileCap ==
    \A i \in DOMAIN byUri :
        LET recs == byUri[i].val
            kept == SelectSeq(getDiagnosticsOf(diagnostics, byUri[i].key),
                              LAMBDA d : LetThrough(config, d))
        IN  /\ Len(recs) <= config.maxDiagnosticsPerFile
            /\ Len(recs) <= Len(kept)
            /\ \A k \in DOMAIN recs :
                  /\ recs[k].message = kept[k].message
                  /\ recs[k].source = kept[k].source
                  /\ recs[k].severity = SeverityName(kept[k].severity)
\* =====================================================================
\* Properties of dispose (specification SpecDispose)
\* =====================================================================
\* C26: when dispose() returns the primary map is empty (getAll() is
\* empty and getCounts() is all zero), no summary is cached and the
\* context line cache is empty; once the store is disposed no call of it
\* delivers a change event to a subscriber.
C26_DisposeClearsTheStore ==
    [][ /\ (lastOp'.op = "dispose" /\ ~emitterDisposed) =>
              /\ emitterDisposed'
              /\ byUri' = <<>>
              /\ getAll(StoreAfter) = <<>>
              /\ getCounts(StoreAfter) = [errors |-> 0, warnings |-> 0, info |-> 0, hints |-> 0]
              /\ cachedSummaries' = <<>>
              /\ LRUSize(fileCache') = 0
              /\ \A u \in Uris : ~LRUHas(fileCache', u)
        /\ emitterDisposed => fired' = <<>> ]_vars

\* C26 witness: dispose was called on the store that holds three records,
\* has a summary cached and has just cached the lines of FILE_A for a query
C26_Witness ==
    /\ lastOp.op = "dispose"
    /\ now = 1
    /\ idCounter = 3
    /\ summaryCounter = 1
    /\ returned.op = "query"
    /\ \E i \in DOMAIN returned.slots :
          returned.slots[i].lines # None /\ ~returned.slots[i].hit
    /\ byUri = <<>>
    /\ LRUSize(fileCache) = 0
\* =====================================================================
\* Properties of the summaries (specification SpecGroups)
\* =====================================================================
\* the group of a record under each grouping
GroupOf(d, groupBy) ==
    CASE groupBy = "severity" -> d.severity
      [] groupBy = "source" -> IF d.source = Undefined THEN "unknown" ELSE d.source
      [] groupBy = "file" -> d.relativePath
      [] groupBy = "workspace" ->
            IF d.workspaceFolder = Undefined THEN "default" ELSE d.workspaceFolder

RECURSIVE SumCounts(_, _)
SumCounts(byGroup, keys) ==
    IF keys = {} THEN 0
    ELSE LET k == CHOOSE x \in keys : TRUE
         IN  byGroup[k].count + SumCounts(byGroup, keys \ {k})

SummaryIsCorrect(s, all, groupBy) ==
    /\ s.total = Len(all)
    /\ SumCounts(s.byGroup, DOMAIN s.byGroup) = s.total
    /\ \A i \in DOMAIN all : GroupOf(all[i], groupBy) \in DOMAIN s.byGroup
    /\ \A k \in DOMAIN s.byGroup :
          LET members == {i \in DOMAIN all : GroupOf(all[i], groupBy) = k}
              paths == {all[i].relativePath : i \in members}
              files == s.byGroup[k].files
          IN  /\ s.byGroup[k].count = Cardinality(members)
              /\ {files[j] : j \in DOMAIN files} = paths
              /\ Len(files) = Cardinality(paths)
              /\ \A j \in 1..(Len(files) - 1) : localeCompare(files[j], files[j + 1]) < 0

\* C27: a summary that getSummary(g) computes has total = the number of
\* stored records, group counts that sum to total, every record counted in
\* exactly one group (its severity; its source, or "unknown" when it has
\* none; its relative path; its workspace folder, or "default"), and for
\* every group the sorted distinct relative paths of its records as files.
C27_SummaryIsCorrect ==
    [][ (lastOp'.op = "getSummary" /\ summaryCounter' = summaryCounter + 1) =>
            SummaryIsCorrect(cachedSummaries'[lastOp'.groupBy], getAll(Store),
                             lastOp'.groupBy) ]_vars

\* C27 witness: summaries by workspace and by source of six records, four in
\* the two folders named app (one relative path) and two outside every
\* folder, one of the six without a source
C27_Witness ==
    /\ lastOp.op = "getSummary"
    /\ DOMAIN cachedSummaries = {"workspace", "source"}
    /\ cachedSummaries["workspace"].total = 6
    /\ cachedSummaries["workspace"].byGroup =
          [k \in {"app", "default"} |->
              IF k = "app" THEN [count |-> 4, files |-> <<"app/src/a.ts">>]
              ELSE [count |-> 2, files |-> <<"/tmp/scratch.ts">>]]
    /\ "unknown" \in DOMAIN cachedSummaries["source"].byGroup
    /\ cachedSummaries["source"].byGroup["unknown"].count = 1
\* =====================================================================
\* Properties of the context windows (specification SpecContext)
\* =====================================================================
\* C28: getContextLines for a start line and a radius r gives nothing
\* exactly when r <= 0, the file cannot be read or the line is outside
\* [0, lineCount); otherwise the window holds the line itself, min(r, line)
\* lines before it and min(r, lineCount - 1 - line) lines after it, and the
\* three together are the lines max(0, line - r) .. min(lineCount - 1,
\* line + r) of the file, in order.
C28_ContextWindowClamping ==
    \A i \in DOMAIN returned.slots :
        LET slot == returned.slots[i]
            r == returned.count
            line == returned.selected[i].range.startLine
        IN  /\ slot.state = "done"
            /\ slot.ctx = None <=>
                  \/ r <= 0
                  \/ slot.failed
                  \/ slot.lines # None /\ ~(0 <= line /\ line < Len(slot.lines[1]))
            /\ slot.ctx # None =>
                  LET w == slot.ctx[1]
                      file == slot.lines[1]
                      first == Max(0, line - r)
                      last == Min(Len(file) - 1, line + r)
                  IN  /\ w.line = file[line + 1]
                      /\ Len(w.before) = Min(r, line)
                      /\ Len(w.after) = Min(r, Len(file) - 1 - line)
                      /\ w.before \o <<w.line>> \o w.after
                            = [k \in 1..(last - first + 1) |-> file[first + k]]

\* C28 witness: a call with radius 3 returned a window around line 1 of a
\* file of four lines, cut to one line before and two after, and no window
\* for the record of a file that cannot be read
C28_Witness ==
    /\ returned.count = 3
    /\ \E i \in DOMAIN returned.slots :
          /\ returned.selected[i].range.startLine = 1
          /\ returned.slots[i].ctx # None
          /\ Len(returned.slots[i].lines[1]) = 4
          /\ Len(returned.slots[i].ctx[1].before) = 1
          /\ Len(returned.slots[i].ctx[1].after) = 2
    /\ \E i \in DOMAIN returned.slots :
          returned.slots[i].failed /\ returned.slots[i].ctx = None
\* =====================================================================
\* Properties of the message matcher (specification SpecMatch)
\* =====================================================================
\* the ids of the stored records whose message satisfies Matches
Matching(Matches(_)) == {d.id : d \in {x \in Range(getAll(Store)) : Matches(x.message)}}

ReturnedIds == {d.id : d \in Range(returned.records)}

\* the four forms, the pattern taken as it is written
PlainMatch(m, pattern) ==
    LET caret == StartsWith(pattern, "^")
        rest == IF caret THEN SubSeq(pattern, 2, Len(pattern)) ELSE pattern
        dollar == EndsWith(rest, "$")
        p == toLowerCase(IF dollar THEN SubSeq(rest, 1, Len(rest) - 1) ELSE rest)
        msg == toLowerCase(m)
    IN  CASE caret /\ dollar -> msg = p
          [] caret /\ ~dollar -> StartsWith(msg, p)
          [] ~caret /\ dollar -> EndsWith(msg, p)
          [] OTHER -> includes(msg, p)

\* C29: matching is case-insensitive; a pattern ^p matches the messages
\* that start with p, p$ those that end with p, ^p$ those equal to p, and
\* any other pattern, an invalid regular expression such as [ included,
\* those that contain it.  Stated for the patterns without a backslash.
C29_MessageMatcherForms ==
    ( /\ returned.op = "query"
      /\ Truthy(returned.arg.messagePattern)
      /\ ~includes(returned.arg.messagePattern, Backslash) )
    => ReturnedIds = Matching(LAMBDA m : PlainMatch(m, returned.arg.messagePattern))

\* the text a pattern denotes when \^, \$ and \\ stand for ^, $ and \
RECURSIVE Denoted(_)
Denoted(p) ==
    IF p = "" THEN ""
    ELSE IF Len(p) >= 2 /\ SubSeq(p, 1, 1) = Backslash
                        /\ SubSeq(p, 2, 2) \in {"^", "$", Backslash}
         THEN SubSeq(p, 2, 2) \o Denoted(SubSeq(p, 3, Len(p)))
         ELSE SubSeq(p, 1, 1) \o Denoted(SubSeq(p, 2, Len(p)))

\* the pattern ends with a $ that is not part of an escape
RECURSIVE EndsWithAnchor(_)
EndsWithAnchor(p) ==
    IF p = "" THEN FALSE
    ELSE IF p = "$" THEN TRUE
    ELSE IF Len(p) >= 2 /\ SubSeq(p, 1, 1) = Backslash
                        /\ SubSeq(p, 2, 2) \in {"^", "$", Backslash}
         THEN EndsWithAnchor(SubSeq(p, 3, Len(p)))
         ELSE EndsWithAnchor(SubSeq(p, 2, Len(p)))

\* the four forms, an escaped character being a literal and never an anchor
EscapedMatch(m, pattern) ==
    LET caret == StartsWith(pattern, "^")
        rest == IF caret THEN SubSeq(pattern, 2, Len(pattern)) ELSE pattern
        dollar == EndsWithAnchor(rest)
        p == toLowerCase(Denoted(IF dollar THEN SubSeq(rest, 1, Len(rest) - 1) ELSE rest))
        msg == toLowerCase(m)
    IN  CASE caret /\ dollar -> msg = p
          [] caret /\ ~dollar -> StartsWith(msg, p)
          [] ~caret /\ dollar -> EndsWith(msg, p)
          [] OTHER -> includes(msg, p)

\* C30: in a pattern \^, \$ and \\ denote the characters ^, $ and \
\* wherever they occur and are never anchors; a pattern that ends with \$
\* is not end-anchored and matches the messages that contain the text
\* before it followed by a $.
C30_EscapedAnchorsAreLiterals ==
    ( /\ returned.op = "query"
      /\ Truthy(returned.arg.messagePattern)
      /\ includes(returned.arg.messagePattern, Backslash) )
    => ReturnedIds = Matching(LAMBDA m : EscapedMatch(m, returned.arg.messagePattern))
\* =====================================================================
\* Properties of the glob matcher (specification SpecGlob)
\* =====================================================================
\* a pattern segment matches a path segment: a star stands for any run of
\* characters, a question mark for one character, any other character for
\* itself
RECURSIVE SegmentFits(_, _)
SegmentFits(pattern, segment) ==
    IF pattern = "" THEN segment = ""
    ELSE LET c == SubSeq(pattern, 1, 1)
             rest == SubSeq(pattern, 2, Len(pattern))
         IN  \/ /\ c = "*"
                /\ \E k \in 0..Len(segment) :
                      SegmentFits(rest, SubSeq(segment, k + 1, Len(segment)))
             \/ /\ c = "?"
                /\ segment # ""
                /\ SegmentFits(rest, SubSeq(segment, 2, Len(segment)))
             \/ /\ c \notin {"*", "?"}
                /\ segment # ""
                /\ SubSeq(segment, 1, 1) = c
                /\ SegmentFits(rest, SubSeq(segment, 2, Len(segment)))

\* the pattern segments match the path segments one to one, a double star
\* standing for zero or more whole segments
RECURSIVE PartsFit(_, _)
PartsFit(patternParts, valueParts) ==
    IF patternParts = <<>> THEN valueParts = <<>>
    ELSE IF Head(patternParts) = "**"
    THEN \E k \in 0..Len(valueParts) :
             PartsFit(Tail(patternParts), SubSeq(valueParts, k + 1, Len(valueParts)))
    ELSE /\ valueParts # <<>>
         /\ SegmentFits(Head(patternParts), Head(valueParts))
         /\ PartsFit(Tail(patternParts), Tail(valueParts))

\* the indexed files whose relative path fits the pattern
FilesFitting(pattern) ==
    {byUri[i].key : i \in {j \in DOMAIN byUri :
        PartsFit(pathParts(pattern), pathParts(byUri[j].val[1].relativePath))}}

\* C31: globMatch(pattern, path) holds exactly when the segments of the
\* path match the segments of the pattern one to one, where ** stands for
\* zero or more whole segments, * for any run of characters inside one
\* segment, ? for one character and any other character for itself;
\* query({uriPattern}) returns the records of the files whose relative
\* path matches so.
C31_GlobSemantics ==
    (returned.op = "query" /\ Truthy(returned.arg.uriPattern)) =>
        {d.uri : d \in Range(returned.records)} = FilesFitting(returned.arg.uriPattern)
\* =====================================================================
\* Properties of the fast path (specification SpecFast)
\* =====================================================================
\* the records a scan of every known file finds for the filter
FullScan(params) ==
    SelectSeq(getAll(Store), LAMBDA d :
        /\ params.severity # None => d.severity \in Range(params.severity[1])
        /\ params.source # None =>
              d.source # Undefined /\ d.source # "" /\ d.source \in Range(params.source[1]))

C33_FilterSoundness ==
    returned.op = "query" =>
        LET params == returned.arg
            resolved == IF Truthy(params.uri) THEN resolveUriOrPath(Store, params.uri)
                        ELSE Undefined
        IN  /\ (Truthy(params.uri) /\ ~Truthy(resolved)) => returned.records = <<>>
            /\ \A d \in Range(returned.records) :
                  /\ Truthy(params.uri) => d.uri = resolved
                  /\ Truthy(params.uriPattern) =>
                        globMatch(normalizePath(params.uriPattern),
                                  normalizePath(d.relativePath))
                  /\ Truthy(params.workspaceFolder) =>
                        d.workspaceFolder = params.workspaceFolder
                  /\ params.severity # None => d.severity \in Range(params.severity[1])
                  /\ params.source # None =>
                        /\ d.source # Undefined /\ d.source # ""
                        /\ d.source \in Range(params.source[1])
                  /\ params.code # None =>
                        /\ d.code # Undefined /\ d.code # Null
                        /\ d.code \in Range(params.code[1])
                  /\ Truthy(params.messagePattern) =>
                        matchMessagePattern(d.message, params.messagePattern)

\* C33 witness: a query for the errors of one file returned the one error
\* of that file, while another file holds an error as well
C33_Witness ==
    /\ returned.op = "query"
    /\ returned.arg = [NoParams EXCEPT !.uri = APP_X, !.severity = Some(<<"error">>)]
    /\ Len(returned.records) = 1
    /\ returned.records[1].uri = APP_X
    /\ bySeverity["error"] = <<MONO, APP_X>>
\* =====================================================================
\* Properties of the change events (specification Spec)
\* =====================================================================
\* the records of f, and its memberships, in the index a subscriber reads
SeenRecords(view, f) == IF MapHas(view.byUri, f) THEN MapGet(view.byUri, f) ELSE <<>>

SeenConsistent(view, f) ==
    /\ \A sev \in Severities :
          SetHas(view.bySeverity[sev], f)
            <=> \E i \in DOMAIN SeenRecords(view, f) : SeenRecords(view, f)[i].severity = sev
    /\ \A src \in Sources \ {""} :
          (src \in DOMAIN view.bySource /\ SetHas(view.bySource[src], f))
            <=> \E i \in DOMAIN SeenRecords(view, f) : SeenRecords(view, f)[i].source = src

\* C34: a change event of handleDiagnosticChange or updateConfig is
\* delivered when every file it names is re-indexed: a subscriber that
\* reads the store inside its callback finds the index the call leaves,
\* with the new record list of every file of the event, its memberships
\* those of that list, and no summary cached.
C34_NoPartialUpdateObservable ==
    [][ (StoreCalled("handleDiagnosticChange") \/ StoreCalled("updateConfig")) =>
          /\ Len(seen') = Len(fired')
          /\ \A k \in DOMAIN seen' :
                /\ seen'[k] = [byUri |-> byUri', bySeverity |-> bySeverity',
                               bySource |-> bySource', cachedSummaries |-> <<>>]
                /\ \A f \in Range(fired'[k]) :
                      /\ RawOfAll(SeenRecords(seen'[k], f))
                            = ExpectedOf(config', getDiagnosticsOf(diagnostics, f))
                      /\ SeenConsistent(seen'[k], f) ]_vars

\* C34 witness: one event named two files, and its subscriber read the two
\* new records of each
C34_Witness ==
    /\ lastOp.op = "handleDiagnosticChange"
    /\ fired = <<(<<FILE_A, FILE_B>>)>>
    /\ Len(seen) = 1
    /\ Len(SeenRecords(seen[1], FILE_A)) = 2
    /\ Len(SeenRecords(seen[1], FILE_B)) = 2
    /\ idCounter >= 6

\* =====================================================================
\* Properties of the context enrichment (specification SpecContext)
\* =====================================================================
\* the lines the cache holds, by file
CacheContents(c) == [k \in DOMAIN c.map |-> c.map[k].value.lines]

\* a call starts: addContext runs every getContextLines up to its await
EnrichmentStarts ==
    /\ inFlight.op = "none" /\ returned.op = "none"
    /\ (inFlight' # inFlight \/ returned' # returned)

\* one await of getFileLines resumes
EnrichmentResumes ==
    /\ inFlight.op # "none"
    /\ (inFlight'.op = "none" \/ Len(inFlight'.completed) > Len(inFlight.completed))

IndexUnchanged ==
    /\ byUri' = byUri /\ bySeverity' = bySeverity /\ bySource' = bySource
    /\ cachedSummaries' = cachedSummaries

\* C35 as stated: the context enrichment of a query changes neither the
\* index (primary map, severity and source sets, summary cache) nor the
\* contents of the line cache.
C35_EnrichmentWritesNothing ==
    [][(EnrichmentStarts \/ EnrichmentResumes) =>
          /\ IndexUnchanged
          /\ CacheContents(fileCache') = CacheContents(fileCache)]_vars

\* C35 amended: the context enrichment never changes the index; the
\* synchronous part leaves the contents of the line cache as they are, and
\* a read that resumes stores the lines it read under the file it read,
\* leaving the entry of every other file as it is (the cache being below
\* its capacity); a read that failed stores nothing.
C35_EnrichmentWritesOnlyLinesRead ==
    [][ /\ EnrichmentStarts =>
              /\ IndexUnchanged
              /\ CacheContents(fileCache') = CacheContents(fileCache)
        /\ EnrichmentResumes =>
              /\ IndexUnchanged
              /\ \E i \in DOMAIN inFlight.slots :
                    LET slot == inFlight.slots[i]
                        uri == inFlight.selected[i].uri
                        before == CacheContents(fileCache)
                    IN  /\ slot.state = "reading"
                        /\ LRUSize(fileCache) < fileCache.maxSize
                        /\ CacheContents(fileCache') =
                              IF slot.failed THEN before
                              ELSE [k \in DOMAIN before \cup {uri} |->
                                       IF k = uri THEN split(slot.text) ELSE before[k]]
      ]_vars

\* C35 witness: a query has returned after reading FILE_A, whose lines the
\* cache now holds, while the two files keep their three records
C35_Witness ==
    /\ returned.op = "query"
    /\ inFlight.op = "none"
    /\ \E i \in DOMAIN returned.slots :
          /\ ~returned.slots[i].hit
          /\ returned.slots[i].lines = Some(split(TextLong))
    /\ LRUHas(fileCache, FILE_A)
    /\ CacheContents(fileCache)[FILE_A] = split(TextLong)
    /\ idCounter = 3
    /\ lastOp.op = "none"

\* =====================================================================
\* Properties of the cache structure (specification SpecLRU)
\* =====================================================================
\* prev and next of the entries are inverse of each other and stay in the map
LinksAreInverse(c) ==
    \A k \in DOMAIN c.map :
        LET e == c.map[k] IN
        /\ e.key = k
        /\ e.next # Null => (e.next \in DOMAIN c.map /\ c.map[e.next].prev = k)
        /\ e.prev # Null => (e.prev \in DOMAIN c.map /\ c.map[e.prev].next = k)
        /\ e.prev = Null <=> c.head = k
        /\ e.next = Null <=> c.tail = k

\* C36: after any sequence of get, set, delete and clear the map and the
\* linked list hold the same entries, each once; prev and next are mutually
\* inverse; head is the most recently used entry and tail the least
\* recently used one, the list running in order of last use; head and tail
\* are null exactly when the cache is empty.
C36_StructuralConsistency ==
    LET order == LRUOrder(lru) IN
    /\ Len(order) = LRUSize(lru)
    /\ Range(order) = DOMAIN lru.map
    /\ \A i, j \in DOMAIN order : order[i] = order[j] => i = j
    /\ LinksAreInverse(lru)
    /\ order = recency
    /\ lru.head = Null <=> LRUSize(lru) = 0
    /\ lru.tail = Null <=> LRUSize(lru) = 0
    /\ LRUSize(lru) > 0 => (lru.head = order[1] /\ lru.tail = order[Len(order)])

\* C36 witness: in a cache of three entries get has promoted "a" to the
\* head, "b" lying between the head and the tail
C36_Witness ==
    /\ lru.maxSize = 3
    /\ lruOp.op = "get" /\ lruOp.key = "a" /\ lruOp.ret # Undefined
    /\ LRUOrder(lru) = <<"a", "b", "c">>
    /\ lru.head = "a" /\ lru.tail = "c"
    /\ lru.map["b"].prev = "a" /\ lru.map["b"].next = "c"

\* =====================================================================
\* Properties of a single-file update (specification SpecContext)
\* =====================================================================
\* this step leaves the file g as it is: its record list, its memberships
\* in the severity and source sets, and its entry in the line cache
LeavesFile(g) ==
    /\ MapHas(byUri', g) <=> MapHas(byUri, g)
    /\ MapHas(byUri, g) => MapGet(byUri', g) = MapGet(byUri, g)
    /\ \A sev \in DOMAIN bySeverity \cup DOMAIN bySeverity' :
          (sev \in DOMAIN bySeverity' /\ SetHas(bySeverity'[sev], g))
             <=> (sev \in DOMAIN bySeverity /\ SetHas(bySeverity[sev], g))
    /\ \A src \in DOMAIN bySource \cup DOMAIN bySource' :
          (src \in DOMAIN bySource' /\ SetHas(bySource'[src], g))
             <=> (src \in DOMAIN bySource /\ SetHas(bySource[src], g))
    /\ LRUHas(fileCache', g) <=> LRUHas(fileCache, g)
    /\ LRUHas(fileCache, g) => fileCache'.map[g].value = fileCache.map[g].value

\* this step is a handleDiagnosticChange call for one file (an event: the
\* clock advances; an edit of a document is the other event that leaves
\* lastOp as it is)
Reindexed ==
    /\ lastOp'.op = "handleDiagnosticChange"
    /\ Len(lastOp'.uris) = 1
    /\ now' # now
    /\ fileContents' = fileContents

\* C37: re-indexing a single file f leaves every other file g untouched:
\* the record list of g (same ids, same order), the memberships of g in
\* the severity and source sets and the line-cache entry of g are as
\* before; of the line cache only the entry of f is invalidated.
C37_SingleFileUpdateFrame ==
    [][ Reindexed =>
            LET f == lastOp'.uris[1] IN
            /\ \A g \in Uris \ {f} : LeavesFile(g)
            /\ ~LRUHas(fileCache', f) ]_vars

\* C37 witness: FILE_B was re-indexed with two records while FILE_A keeps
\* its two records, the first ones numbered, and its cached lines
C37_Witness ==
    /\ lastOp.op = "handleDiagnosticChange"
    /\ lastOp.uris = <<FILE_B>>
    /\ Len(RecordsOf(FILE_B)) = 2
    /\ Len(RecordsOf(FILE_A)) = 2
    /\ idCounter = 5
    /\ LRUHas(fileCache, FILE_A)
    /\ ~LRUHas(fileCache, FILE_B)

\* =====================================================================
\* Properties of the disposed collector (specification SpecCollector)
\* =====================================================================
\* C38: once DiagnosticCollector.dispose() has run, the collector never
\* calls store.handleDiagnosticChange again: the pending debounced flush
\* is cancelled (no timer of the collector is left, so no flush can run),
\* no flush is recorded and the store is not called, although uris may
\* remain in the buffer.
C38_NoCallAfterDispose ==
    /\ [](collectorDisposed => (timer = Undefined /\ timeouts = <<>>))
    /\ [][collectorDisposed' =>
              /\ lastFlush' = lastFlush
              /\ pendingUris' = pendingUris
              /\ UNCHANGED <<byUri, bySeverity, bySource, idCounter, lastOp, fired>>]_vars

\* C38 witness: after one flush a further notification was buffered and
\* its flush armed, then the collector was disposed: the buffer keeps the
\* uris and no timer is left
C38_Witness ==
    /\ collectorDisposed
    /\ lastFlush.n = 1
    /\ Len(lastFlush.calls) = 1
    /\ Len(pendingUris) > 0
    /\ notified # {}
    /\ timer = Undefined
    /\ timeouts = <<>>

\* =====================================================================
\* Properties of a store used after dispose (specification SpecReuse)
\* =====================================================================
\* C39: when handleDiagnosticChange or updateConfig is applied after
\* dispose(), the store is never in a state where getAll() returns a
\* record of severity s while query({severity: [s]}) returns none.
C39_UseAfterDisposeConsistent ==
    emitterDisposed =>
        \A sev \in Severities :
            (\E d \in Range(getAll(Store)) : d.severity = sev) =>
                Len(query(Store, [NoParams EXCEPT !.severity = Some(<<sev>>)])) > 0

\* =====================================================================
\* Properties of the server lifecycle (specification SpecServer)
\* =====================================================================
\* C40: under any interleaving of start(), stop() and restart() calls at
\* most one HttpTransport is listening at a time, and when a stop() call
\* has completed isRunning is false and the server holds no transport.
C40_ServerLifecycle ==
    /\ Cardinality(Listening(server)) <= 1
    /\ server.done.op = "stop" =>
          (~server.running /\ server.transport = <<>>)

====
